---- MODULE Spec2Model ----
(***************************************************************************)
(* pop-os/packaging-ci: the build pipeline of src/src/main.rs and the      *)
(* components it drives (fetcher.rs, collate.rs, blacklist.rs, dpkg.rs,    *)
(* git.rs).                                                                *)
(*                                                                         *)
(* Text (branch names, series, commit ids, the blacklist file) is a        *)
(* sequence of one-character strings, so that split, find and the writer's *)
(* formatting are computed and not assumed.                                *)
(*                                                                         *)
(* The module holds several specifications over one set of variables:      *)
(*   Spec          the orchestrator: main, main_, process_repo             *)
(*   FairSpec      Spec under weak fairness of every step                  *)
(*   SpecCollate   collate::build_queue                                    *)
(*   SpecBlacklist the blacklist file across two runs                      *)
(*   SpecFetch     Fetcher::branches and the git commands it launches      *)
(*   SpecListing   the filter of the remote branch listing                 *)
(*   SpecDpkg      Dpkg::source and Dpkg::binary over one build directory  *)
(*   SpecArchive   GitTar::new for the branches of one repository          *)
(*   SpecPages     github::fetch_all, the pages of one listing             *)
(* Each specification moves its own variables and leaves the others at     *)
(* their idle values.                                                      *)
(***************************************************************************)
EXTENDS Integers, Sequences, FiniteSets, TLC

----------------------------------------------------------------------------
(* Bounds of the model *)

\* repositories over all organizations
NumRepos == 3
\* organizations of config.github.organizations
NumOrgs == 2
\* largest configured value of concurrent_builds that is explored
MaxConcurrent == 2
\* largest number of branches of the repository given to build_queue
MaxBranches == 3
\* runs of the program over one blacklist file
MaxRuns == 2
\* source-build failures of one run
MaxFailures == 2
\* repositories of the organization given to Fetcher::repos
NumFetchRepos == 2
\* largest number of branches the forge lists for a repository
MaxListing == 3
\* runs of the program over one build directory
DpRuns == 2
\* pages the forge holds for one listing
MaxPages == 3
\* cells of one repository that carry the same commit in the same series
DpCells == 2

----------------------------------------------------------------------------
(* Text *)

US == "_"
SP == " "
NL == "\n"

\* names used by the scenarios of the specifications
master == <<"m">>
master_A == <<"m", "_", "A">>
master_B == <<"m", "_", "B">>
master_A_x == <<"m", "_", "A", "_", "x">>
release == <<"r">>
SeriesA == <<"A">>
SeriesB == <<"B">>

\* byte order of the characters that occur (str::cmp compares bytes)
Ord(c) ==
  CASE c = SP -> 32
    [] c = "/" -> 47
    [] c = "1" -> 49 [] c = "2" -> 50 [] c = "3" -> 51 [] c = "4" -> 52
    [] c = "A" -> 65 [] c = "B" -> 66
    [] c = US -> 95
    [] c = "a" -> 97 [] c = "b" -> 98
    [] c = "m" -> 109 [] c = "r" -> 114 [] c = "x" -> 120
    [] OTHER -> 0

\* a < b for two texts, as <str as Ord>::cmp
RECURSIVE StrLess(_, _)
StrLess(a, b) ==
  IF b = <<>> THEN FALSE
  ELSE IF a = <<>> THEN TRUE
  ELSE IF Head(a) = Head(b) THEN StrLess(Tail(a), Tail(b))
  ELSE Ord(Head(a)) < Ord(Head(b))

\* str::split(sep): the pieces between the separators, in order
RECURSIVE Split(_, _)
Split(s, sep) ==
  IF \A i \in 1..Len(s) : s[i] # sep THEN <<s>>
  ELSE LET i == CHOOSE k \in 1..Len(s) : s[k] = sep /\ \A j \in 1..(k-1) : s[j] # sep
       IN <<SubSeq(s, 1, i-1)>> \o Split(SubSeq(s, i+1, Len(s)), sep)

\* Option<T>: None is <<>>, Some(x) is <<x>>
None == <<>>
Some(x) == <<x>>

----------------------------------------------------------------------------
(* collate.rs *)

\* parse_branch: (pocket, Option<codename>)
parse_branch(branch) ==
  LET parts == Split(branch, US)
  IN [pocket |-> parts[1],
      codename |-> IF Len(parts) >= 2 THEN Some(parts[2]) ELSE None]

\* HashMap::insert on a pocket map (pocket -> GitTar)
MapInsert(m, k, v) == [p \in DOMAIN m \cup {k} |-> IF p = k THEN v ELSE m[p]]

\* (mutant) a wildcard branch overwrites the pocket it finds
CollateOne_Overwrite(bq, branch, git_tar) ==
  LET pb == parse_branch(branch.name)
  IN [s \in DOMAIN bq |->
        IF pb.codename = None \/ s = pb.codename[1]
          THEN MapInsert(bq[s], pb.pocket, git_tar) ELSE bq[s]]

\* (mutant) entry(codename).or_insert_with(HashMap::new).insert: a series that
\* is no key of the queue becomes one
CollateOne_OrInsert(bq, branch, git_tar) ==
  LET pb == parse_branch(branch.name)
  IN IF pb.codename # None
       THEN [s \in DOMAIN bq \cup {pb.codename[1]} |->
               IF s = pb.codename[1]
                 THEN MapInsert(IF s \in DOMAIN bq THEN bq[s] ELSE <<>>, pb.pocket, git_tar)
                 ELSE bq[s]]
       ELSE [s \in DOMAIN bq |->
               IF pb.pocket \in DOMAIN bq[s] THEN bq[s]
               ELSE MapInsert(bq[s], pb.pocket, git_tar)]

\* the body of the while-let loop of build_queue for one completed archive
CollateOne(bq, branch, git_tar) ==
  LET pb == parse_branch(branch.name)
  IN IF pb.codename # None
       THEN \* entry(codename).and_modify(insert): nothing when codename is no key
            [s \in DOMAIN bq |->
               IF s = pb.codename[1] THEN MapInsert(bq[s], pb.pocket, git_tar) ELSE bq[s]]
       ELSE \* entry(pocket).or_insert_with(clone) in every series
            [s \in DOMAIN bq |->
               IF pb.pocket \in DOMAIN bq[s] THEN bq[s]
               ELSE MapInsert(bq[s], pb.pocket, git_tar)]

\* GitTar::new for a branch (the archive is named after the commit)
GitTarOf(branch) == [id |-> branch.sha]

\* the queue before any archive has completed: every series, no pocket
EmptyQueue(series) == [s \in series |-> <<>>]

\* build_queue when the archives complete in the order `done`
RECURSIVE CollateAll(_, _)
CollateAll(bq, done) ==
  IF done = <<>> THEN bq
  ELSE CollateAll(CollateOne(bq, Head(done), GitTarOf(Head(done))), Tail(done))

\* the cells (series, pocket, commit) of a build queue
CellsOf(bq) ==
  UNION {{[series |-> s, pocket |-> p, id |-> bq[s][p].id] : p \in DOMAIN bq[s]} :
           s \in DOMAIN bq}

----------------------------------------------------------------------------
(* State *)

VARIABLES
  \* --- orchestrator (main.rs) ---
  concurrent_builds, \* config.concurrent_builds
  main_pc,           \* where main/main_ stand
  main_result,       \* what main_ returned: "none", "Ok", "Err"
  fatal,             \* the fatal error main_ returned with: "none", "config", "startup"
  exit_code,         \* exit code of the process, NotExited while it runs
  blacklisted,       \* the entries loaded at startup: pairs <<first, second>>
  fetcher_pc,        \* the fetcher block: "organization", "for_each", "done"
  org,               \* the organization the fetcher block is at
  task,              \* per repository: the stage of its future
  queue,             \* per repository: cells of the build queue not yet built
  cur,               \* per repository: the cell being built
  archs_todo,        \* per repository: architectures of the cell not yet built
  deb_paths,         \* per repository: process_repo's local deb_paths
  tx_alive,          \* main_'s own sender blacklist_tx is alive
  tx_clones,         \* number of live clones of the sender
  chan,              \* entries sent and not yet received
  writer_pc,         \* the blacklist writer: "recv", "done"
  bl_file,           \* the lines of the blacklist file, as entries
  dsc,               \* (commit, series) whose .dsc and .tar.xz exist
  source_calls,      \* cells for which Dpkg::source was called
  published,         \* pockets for which the Publisher ran
  \* --- collate::build_queue (collate.rs) ---
  cq_pc,             \* "idle", "call", "stream", "done", "panicked"
  cq_series,         \* keys of config.series
  cq_wildcard,       \* per series: config.series[s].wildcard
  cq_branches,       \* repo.branches, sorted by name
  cq_pending,        \* indices of the archive futures that have not completed
  cq_done,           \* the branches in the order their archives completed
  cq_queue,          \* build_queue
  \* --- the blacklist file across runs (blacklist.rs, main.rs) ---
  bf_pc,             \* "idle", "startup", "running", "over"
  bf_run,            \* number of the run
  bf_retry,          \* config.retry of the run (PACKAGING_RETRY=1)
  bf_exists,         \* _build/blacklist exists
  bf_bytes,          \* its content
  bf_loaded,         \* the entries blacklist::fetch returned to the run
  bf_failed,         \* cells whose entry the writer appended in this run
  bf_prev_failed,    \* cells whose entry the writer appended in the run before
  bf_consulted,      \* the consults of this run: [cell, hit]
  \* --- Fetcher::repos and Fetcher::branches (fetcher.rs, git.rs) ---
  ft_pc,             \* per repository: "idle", "join", "loop", "ok", "err"
  ft_exists,         \* per repository: cwd.exists() when fetch_local_branches starts
  ft_heads,          \* per repository: the local branches of a tree that exists
  ft_remote,         \* per repository: the remote future: "pending", "ok", "err"
  ft_k,              \* per repository: commands of the current phase already spawned
  ft_wait,           \* per repository: the command whose exit the future awaits
  ft_running,        \* the git subprocesses that are running
  ft_emitted,        \* per repository: the branches of the Repository returned
  ft_log,            \* per repository: the git commands spawned, in order
  ft_listing,        \* per repository: the branches the forge lists
  \* --- process_repo over the cells of one repository (main.rs, dpkg.rs) ---
  dp_pc,             \* where process_repo / Dpkg::source / Dpkg::binary stand
  dp_run,            \* number of the run
  dp_queue,          \* the cells build_queue returns in every run
  dp_todo,           \* cells of the build queue not yet taken
  dp_cell,           \* the cell in hand
  dp_disk,           \* the files that exist under _build
  dp_pkgs,           \* the Package-List of the .dsc debuild writes
  dp_patches,        \* the archive holds debian/patches
  dp_start,          \* dp_disk when the run started
  dp_snap,           \* dp_disk when the function in progress was called
  dp_trace,          \* tools invoked by the function in progress
  dp_calls,          \* tools invoked in this run, in order
  dp_ret,            \* what the last function returned
  dp_sent,           \* blacklist entries sent in this run
  dp_ok,             \* every source and binary call of this run returned Ok
  dp_prev_ok,        \* the same for the run before
  dp_prev_calls,     \* tools invoked in the run before
  dp_retry,          \* config.retry of the run (PACKAGING_RETRY=1)
  dp_blfile,         \* the entries of the blacklist file
  \* --- the GitTar::new futures of one build_queue call (git.rs, collate.rs) ---
  ar_pc,             \* "idle", "stream", "done", "panicked"
  ar_shas,           \* per branch of the repository: its commit
  ar_fut,            \* per branch: "new", "logs", "spawned", "writing", "ready"
  ar_files,          \* the commits whose <sha>.tar exists under _build/git
  ar_log,            \* the commits git archive was spawned for, in order
  \* --- one call of github::fetch_all (github.rs) ---
  fa_pc,             \* "idle", "loop", "await", "done"
  fa_page,           \* the local page
  fa_url,            \* the local page_url, as pieces of text
  fa_token,          \* github_token(): None or Some(token)
  fa_data,           \* the local data
  fa_requests,       \* the URLs requested, in order
  fa_served,         \* the pages the forge answered with, in order
  fa_result          \* what fetch_all returned

orchVars == <<concurrent_builds, main_pc, main_result, fatal, exit_code, blacklisted,
              fetcher_pc, org, task, queue, cur, archs_todo, deb_paths, tx_alive,
              tx_clones, chan, writer_pc, bl_file, dsc, source_calls,
              published>>

collateVars == <<cq_pc, cq_series, cq_wildcard, cq_branches, cq_pending, cq_done, cq_queue>>

blVars == <<bf_pc, bf_run, bf_retry, bf_exists, bf_bytes, bf_loaded, bf_failed,
            bf_prev_failed, bf_consulted>>

fetchVars == <<ft_pc, ft_exists, ft_heads, ft_remote, ft_k, ft_wait, ft_running,
               ft_emitted, ft_log, ft_listing>>

dpkgVars == <<dp_pc, dp_run, dp_queue, dp_todo, dp_cell, dp_disk, dp_pkgs, dp_patches, dp_start,
              dp_snap, dp_trace, dp_calls, dp_ret, dp_sent, dp_ok, dp_prev_ok,
              dp_prev_calls, dp_retry, dp_blfile>>

archVars == <<ar_pc, ar_shas, ar_fut, ar_files, ar_log>>

pageVars == <<fa_pc, fa_page, fa_url, fa_token, fa_data, fa_requests, fa_served,
              fa_result>>

vars == <<orchVars, collateVars, blVars, fetchVars, dpkgVars, archVars, pageVars>>

----------------------------------------------------------------------------
(* Orchestrator: configuration of the scenarios *)

Repos == 1..NumRepos
Orgs == 1..NumOrgs
\* the repositories are dealt to the organizations in turn
OrgOf(r) == ((r - 1) % NumOrgs) + 1
OrgRepos(o) == {r \in Repos : OrgOf(r) = o}

\* config.series and config.archs
ConfigSeries == {SeriesA, SeriesB}
Archs == {"amd64", "arm64"}

HexDigit == <<"1", "2", "3", "4", "5", "6">>
\* the commit of the k-th branch of repository r
Sha(r, k) == <<"a", HexDigit[r], HexDigit[k]>>

\* the branches the Fetcher emits for repository r, sorted by name: the wildcard
\* branch master for every other repository, the pinned branch master_A for the rest
RepoBranches(r) ==
  IF r % 2 = 1 THEN <<[name |-> master, sha |-> Sha(r, 1)]>>
  ELSE <<[name |-> master_A, sha |-> Sha(r, 1)]>>

\* all orders in which the archives of a repository can complete
Orders(bs) ==
  {o \in [1..Len(bs) -> 1..Len(bs)] : \A i, j \in 1..Len(bs) : i # j => o[i] # o[j]}

AllCells ==
  UNION {UNION {CellsOf(CollateAll(EmptyQueue(ConfigSeries),
                                   [i \in 1..Len(RepoBranches(r)) |-> RepoBranches(r)[o[i]]])) :
                  o \in Orders(RepoBranches(r))} : r \in Repos}

\* what the run finds on disk: the lines of _build/blacklist and the source
\* artifacts of _build/source (as the (commit, series) they were built for):
\* a fresh directory, a blacklist seeded with "<sha of master> A" for the first
\* repository, and the artifacts an earlier run built for the first repository
DiskScenarios ==
  { [blacklist |-> <<>>, dsc |-> {}],
    [blacklist |-> <<<<Sha(1, 1), SeriesA>>>>, dsc |-> {}],
    [blacklist |-> <<>>, dsc |-> {<<Sha(1, 1), SeriesA>>, <<Sha(1, 1), SeriesB>>}] }

NotExited == -1
NoCell == [series |-> <<>>, pocket |-> <<>>, id |-> <<>>]

----------------------------------------------------------------------------
(* Orchestrator: main.rs *)

\* process_repo line 146: the consult of the blacklist for a cell
IsBlacklisted(bl, cell) == <<cell.id, cell.pocket>> \in bl

\* StreamExt::for_each_concurrent: a limit of 0 is no limit
Limit == IF concurrent_builds = 0 THEN None ELSE Some(concurrent_builds)

\* the futures for_each_concurrent holds: one per item taken from the stream
InFlight == {r \in Repos : task[r] \in {"collate", "cells", "source", "debuild", "binary"}}

\* (mutant) the stream is polled whatever the number of futures in flight
UnderLimit_Unbounded == TRUE

\* for_each_concurrent polls the stream of Fetcher::repos only below the limit
UnderLimit == IF Limit = None THEN TRUE ELSE Cardinality(InFlight) < Limit[1]

\* senders of the blacklist channel that are alive
LiveSenders == (IF tx_alive THEN 1 ELSE 0) + tx_clones

Running == main_pc = "join" /\ exit_code = NotExited

InitOrch ==
  /\ concurrent_builds \in 0..MaxConcurrent
  /\ main_pc = "config"
  /\ main_result = "none"
  /\ fatal = "none"
  /\ exit_code = NotExited
  /\ blacklisted = {}
  /\ fetcher_pc = "organization"
  /\ org = 1
  /\ task = [r \in Repos |-> "none"]
  /\ queue = [r \in Repos |-> {}]
  /\ cur = [r \in Repos |-> NoCell]
  /\ archs_todo = [r \in Repos |-> {}]
  /\ deb_paths = [r \in Repos |-> {}]
  /\ tx_alive = FALSE
  /\ tx_clones = 0
  /\ chan = <<>>
  /\ writer_pc = "recv"
  /\ \E disk \in DiskScenarios : bl_file = disk.blacklist /\ dsc = disk.dsc
  /\ source_calls = {}
  /\ published = {}

\* main_ line 46: Config::new()?
ConfigNew(ok) ==
  /\ main_pc = "config"
  /\ main_pc' = IF ok THEN "startup" ELSE "failed"
  /\ fatal' = IF ok THEN "none" ELSE "config"
  /\ UNCHANGED <<concurrent_builds, main_result, exit_code, blacklisted, fetcher_pc, org,
                 task, queue, cur, archs_todo, deb_paths, tx_alive, tx_clones, chan,
                 writer_pc, bl_file, dsc, source_calls, published>>
  /\ UNCHANGED <<collateVars, blVars, fetchVars, dpkgVars, archVars, pageVars>>

\* blacklist::fetch lines 20-44 on a well-formed file, retry not set: one entry
\* per line (the file as a whole is modelled in SpecBlacklist)
LoadedEntries(file) == {file[i] : i \in 1..Len(file)}

\* main_ lines 51-57: startup(...).await?, then the channel is created
Startup(ok) ==
  /\ main_pc = "startup"
  /\ main_pc' = IF ok THEN "join" ELSE "failed"
  /\ fatal' = IF ok THEN "none" ELSE "startup"
  /\ blacklisted' = IF ok THEN LoadedEntries(bl_file) ELSE {}
  /\ tx_alive' = ok
  /\ UNCHANGED <<concurrent_builds, main_result, exit_code, fetcher_pc, org,
                 task, queue, cur, archs_todo, deb_paths, tx_clones, chan,
                 writer_pc, bl_file, dsc, source_calls, published>>
  /\ UNCHANGED <<collateVars, blVars, fetchVars, dpkgVars, archVars, pageVars>>

\* main_ lines 60-77: fetcher.organization(..).await; on Err the loop continues,
\* on Ok Fetcher::repos collects the fetch of every repository of the
\* organization into one FuturesUnordered, whose first poll starts them all
Organization(ok) ==
  /\ Running
  /\ fetcher_pc = "organization"
  /\ IF ok
       THEN /\ fetcher_pc' = "for_each"
            /\ task' = [r \in Repos |-> IF OrgOf(r) = org THEN "fetching" ELSE task[r]]
            /\ org' = org
       ELSE /\ fetcher_pc' = IF org = NumOrgs THEN "done" ELSE "organization"
            /\ org' = IF org = NumOrgs THEN org ELSE org + 1
            /\ task' = task
  /\ UNCHANGED <<concurrent_builds, main_pc, main_result, fatal, exit_code, blacklisted,
                 queue, cur, archs_todo, deb_paths, tx_alive, tx_clones, chan,
                 writer_pc, bl_file, dsc, source_calls, published>>
  /\ UNCHANGED <<collateVars, blVars, fetchVars, dpkgVars, archVars, pageVars>>

\* (mutant) an Err of one repository ends the stream of its organization
FetchErr_Abort(t, r) ==
  [q \in Repos |-> IF OrgOf(q) = OrgOf(r) /\ t[q] = "fetching" THEN "fetch_err" ELSE t[q]]

\* main_ lines 84-90: on Err the closure logs and returns; only the future of
\* this item ends
FetchErr(t, r) == [t EXCEPT ![r] = "fetch_err"]

\* main_ lines 78-90: the stream yields the result of Fetcher::branches for r;
\* the closure clones the sender; on Err it logs and its future ends at once,
\* on Ok it enters process_repo
FetchYield(r, ok) ==
  /\ Running
  /\ fetcher_pc = "for_each"
  /\ task[r] = "fetching"
  /\ UnderLimit
  /\ task' = IF ok THEN [task EXCEPT ![r] = "collate"] ELSE FetchErr(task, r)
  /\ tx_clones' = IF ok THEN tx_clones + 1 ELSE tx_clones
  /\ UNCHANGED <<concurrent_builds, main_pc, main_result, fatal, exit_code, blacklisted,
                 fetcher_pc, org, queue, cur, archs_todo, deb_paths, tx_alive, chan,
                 writer_pc, bl_file, dsc, source_calls, published>>
  /\ UNCHANGED <<collateVars, blVars, fetchVars, dpkgVars, archVars, pageVars>>

\* process_repo line 139: build_queue(..).await, the archives completing in
\* the order o
BuildQueue(r, o) ==
  /\ Running
  /\ task[r] = "collate"
  /\ LET bs == RepoBranches(r)
         done == [i \in 1..Len(bs) |-> bs[o[i]]]
     IN queue' = [queue EXCEPT ![r] = CellsOf(CollateAll(EmptyQueue(ConfigSeries), done))]
  /\ task' = [task EXCEPT ![r] = "cells"]
  /\ UNCHANGED <<concurrent_builds, main_pc, main_result, fatal, exit_code, blacklisted,
                 fetcher_pc, org, cur, archs_todo, deb_paths, tx_alive, tx_clones, chan,
                 writer_pc, bl_file, dsc, source_calls, published>>
  /\ UNCHANGED <<collateVars, blVars, fetchVars, dpkgVars, archVars, pageVars>>

\* collate.rs lines 41-43: GitTar::new(..).await.unwrap() on an Err (git archive
\* or git log failed) panics; the panic unwinds through main and ends the process
BuildQueuePanic(r) ==
  /\ Running
  /\ task[r] = "collate"
  /\ main_pc' = "exited"
  /\ exit_code' = 101
  /\ UNCHANGED <<concurrent_builds, main_result, fatal, blacklisted,
                 fetcher_pc, org, task, queue, cur, archs_todo, deb_paths, tx_alive,
                 tx_clones, chan, writer_pc, bl_file, dsc, source_calls,
                 published>>
  /\ UNCHANGED <<collateVars, blVars, fetchVars, dpkgVars, archVars, pageVars>>

\* process_repo lines 143-163: the next cell of the queue (HashMap order); the
\* consult at line 146 only logs, the cell goes on to dpkg.source() either way
NextCell(r, c) ==
  /\ Running
  /\ task[r] = "cells"
  /\ c \in queue[r]
  /\ queue' = [queue EXCEPT ![r] = @ \ {c}]
  /\ cur' = [cur EXCEPT ![r] = c]
  /\ source_calls' = source_calls \cup {c}
  /\ task' = [task EXCEPT ![r] = "source"]
  /\ UNCHANGED <<concurrent_builds, main_pc, main_result, fatal, exit_code, blacklisted,
                 fetcher_pc, org, archs_todo, deb_paths, tx_alive, tx_clones, chan,
                 writer_pc, bl_file, dsc, published>>
  /\ UNCHANGED <<collateVars, blVars, fetchVars, dpkgVars, archVars, pageVars>>

\* what process_repo does with an Err of dpkg.source(): lines 184-192
SendBlacklist(r) == chan' = Append(chan, <<cur[r].id, cur[r].series>>)

\* (mutant) the architectures are built whatever dpkg.source() returned
AfterSource_BinaryAnyway(ok) == "binary"

\* process_repo lines 163-192: the Ok arm of dpkg.source() enters the loop over
\* the architectures, the Err arm leaves the cell
AfterSource(ok) == IF ok THEN "binary" ELSE "cells"

\* Dpkg::source lines 274-304: a step before the idempotence check fails
\* (extraction, no debian dir, control, changelog version)
SourceFails(r) ==
  /\ Running
  /\ task[r] = "source"
  /\ SendBlacklist(r)
  /\ task' = [task EXCEPT ![r] = AfterSource(FALSE)]
  /\ UNCHANGED <<concurrent_builds, main_pc, main_result, fatal, exit_code, blacklisted,
                 fetcher_pc, org, queue, cur, archs_todo, deb_paths, tx_alive, tx_clones,
                 writer_pc, bl_file, dsc, source_calls, published>>
  /\ UNCHANGED <<collateVars, blVars, fetchVars, dpkgVars, archVars, pageVars>>

\* Dpkg::source lines 324-328: the .dsc and the .tar.xz exist, nothing is built
SourceCached(r) ==
  /\ Running
  /\ task[r] = "source"
  /\ <<cur[r].id, cur[r].series>> \in dsc
  /\ task' = [task EXCEPT ![r] = AfterSource(TRUE)]
  /\ archs_todo' = [archs_todo EXCEPT ![r] = Archs]
  /\ UNCHANGED <<concurrent_builds, main_pc, main_result, fatal, exit_code, blacklisted,
                 fetcher_pc, org, queue, cur, deb_paths, tx_alive, tx_clones, chan,
                 writer_pc, bl_file, dsc, source_calls, published>>
  /\ UNCHANGED <<collateVars, blVars, fetchVars, dpkgVars, archVars, pageVars>>

\* Dpkg::source lines 329-406: the changelog is stamped and debuild is spawned;
\* line 404 holds only the comment "with debuild_lock:", no lock is taken
DebuildSpawn(r) ==
  /\ Running
  /\ task[r] = "source"
  /\ <<cur[r].id, cur[r].series>> \notin dsc
  /\ task' = [task EXCEPT ![r] = "debuild"]
  /\ UNCHANGED <<concurrent_builds, main_pc, main_result, fatal, exit_code, blacklisted,
                 fetcher_pc, org, queue, cur, archs_todo, deb_paths, tx_alive, tx_clones,
                 chan, writer_pc, bl_file, dsc, source_calls, published>>
  /\ UNCHANGED <<collateVars, blVars, fetchVars, dpkgVars, archVars, pageVars>>

\* Dpkg::source lines 406-432: debuild exits; on success the artifacts exist and
\* source returns Ok, otherwise Err and process_repo sends the blacklist entry
DebuildExit(r, ok) ==
  /\ Running
  /\ task[r] = "debuild"
  /\ task' = [task EXCEPT ![r] = AfterSource(ok)]
  /\ IF ok
       THEN /\ dsc' = dsc \cup {<<cur[r].id, cur[r].series>>}
            /\ archs_todo' = [archs_todo EXCEPT ![r] = Archs]
            /\ chan' = chan
       ELSE /\ SendBlacklist(r)
            /\ UNCHANGED <<dsc, archs_todo>>
  /\ UNCHANGED <<concurrent_builds, main_pc, main_result, fatal, exit_code, blacklisted,
                 fetcher_pc, org, queue, cur, deb_paths, tx_alive, tx_clones,
                 writer_pc, bl_file, source_calls, published>>
  /\ UNCHANGED <<collateVars, blVars, fetchVars, dpkgVars, archVars, pageVars>>

\* (mutant) an Err of dpkg.binary ends the loop over the architectures
BinaryNext_StopOnErr(todo, a, ok) == IF ~ok \/ todo = {a} THEN "cells" ELSE "binary"

\* process_repo lines 168-182: the for loop over config.archs goes on to the
\* next architecture whatever dpkg.binary returned, and ends after the last
BinaryNext(todo, a, ok) == IF todo = {a} THEN "cells" ELSE "binary"

\* process_repo lines 168-182: dpkg.binary(..) for the next architecture
\* (HashMap order); Ok extends deb_paths, Err is logged
Binary(r, a, ok) ==
  /\ Running
  /\ task[r] = "binary"
  /\ a \in archs_todo[r]
  /\ archs_todo' = [archs_todo EXCEPT ![r] = @ \ {a}]
  /\ deb_paths' = [deb_paths EXCEPT ![r] = IF ok THEN @ \cup {<<cur[r], a>>} ELSE @]
  /\ task' = [task EXCEPT ![r] = BinaryNext(archs_todo[r], a, ok)]
  /\ UNCHANGED <<concurrent_builds, main_pc, main_result, fatal, exit_code, blacklisted,
                 fetcher_pc, org, queue, cur, tx_alive, tx_clones, chan,
                 writer_pc, bl_file, dsc, source_calls, published>>
  /\ UNCHANGED <<collateVars, blVars, fetchVars, dpkgVars, archVars, pageVars>>

\* process_repo line 197: Ok(()); the locals deb_paths and blacklist (the
\* sender clone) are dropped
ProcessRepoReturn(r) ==
  /\ Running
  /\ task[r] = "cells"
  /\ queue[r] = {}
  /\ task' = [task EXCEPT ![r] = "done"]
  /\ deb_paths' = [deb_paths EXCEPT ![r] = {}]
  /\ cur' = [cur EXCEPT ![r] = NoCell]
  /\ tx_clones' = tx_clones - 1
  /\ UNCHANGED <<concurrent_builds, main_pc, main_result, fatal, exit_code, blacklisted,
                 fetcher_pc, org, queue, archs_todo, tx_alive, chan,
                 writer_pc, bl_file, dsc, source_calls, published>>
  /\ UNCHANGED <<collateVars, blVars, fetchVars, dpkgVars, archVars, pageVars>>

\* main_ lines 103-104: for_each_concurrent is done when the stream is
\* exhausted and no future is left; the loop goes to the next organization
ForEachDone ==
  /\ Running
  /\ fetcher_pc = "for_each"
  /\ \A r \in OrgRepos(org) : task[r] \in {"done", "fetch_err"}
  /\ fetcher_pc' = IF org = NumOrgs THEN "done" ELSE "organization"
  /\ org' = IF org = NumOrgs THEN org ELSE org + 1
  /\ UNCHANGED <<concurrent_builds, main_pc, main_result, fatal, exit_code, blacklisted,
                 task, queue, cur, archs_todo, deb_paths, tx_alive, tx_clones, chan,
                 writer_pc, bl_file, dsc, source_calls, published>>
  /\ UNCHANGED <<collateVars, blVars, fetchVars, dpkgVars, archVars, pageVars>>

\* (mutant) the receiver yields the entry sent last
Received_Newest(q) == [entry |-> q[Len(q)], rest |-> SubSeq(q, 1, Len(q) - 1)]

\* main_ line 110: blacklist_rx.next() yields the entries of the unbounded
\* channel in the order they were sent
Received(q) == [entry |-> Head(q), rest |-> Tail(q)]

\* main_ lines 109-123: blacklist_rx.next().await; Some(entry) is appended to
\* the file, None (no entry queued and every sender dropped) ends the loop
WriterRecv ==
  /\ Running
  /\ writer_pc = "recv"
  /\ IF chan # <<>>
       THEN /\ bl_file' = Append(bl_file, Received(chan).entry)
            /\ chan' = Received(chan).rest
            /\ writer_pc' = writer_pc
       ELSE /\ LiveSenders = 0
            /\ writer_pc' = "done"
            /\ UNCHANGED <<bl_file, chan>>
  /\ UNCHANGED <<concurrent_builds, main_pc, main_result, fatal, exit_code, blacklisted,
                 fetcher_pc, org, task, queue, cur, archs_todo, deb_paths, tx_alive,
                 tx_clones, dsc, source_calls, published>>
  /\ UNCHANGED <<collateVars, blVars, fetchVars, dpkgVars, archVars, pageVars>>

\* main_ returns: Err through the ? of line 46 or 52, or Ok(()) at line 128
\* once join!(fetcher, blacklist_writer) at line 126 has completed; its locals,
\* the sender blacklist_tx among them, are dropped
MainReturn ==
  /\ main_pc \in {"failed", "join"}
  /\ exit_code = NotExited
  /\ main_pc = "join" => fetcher_pc = "done" /\ writer_pc = "done"
  /\ main_result' = IF main_pc = "join" THEN "Ok" ELSE "Err"
  /\ main_pc' = "returned"
  /\ tx_alive' = FALSE
  /\ UNCHANGED <<concurrent_builds, fatal, exit_code, blacklisted,
                 fetcher_pc, org, task, queue, cur, archs_todo, deb_paths,
                 tx_clones, chan, writer_pc, bl_file, dsc, source_calls,
                 published>>
  /\ UNCHANGED <<collateVars, blVars, fetchVars, dpkgVars, archVars, pageVars>>

\* main lines 205-209: an Err of main_ is logged; main returns () either way,
\* which ends the process with exit code 0
MainExit ==
  /\ main_pc = "returned"
  /\ main_pc' = "exited"
  /\ exit_code' = 0
  /\ UNCHANGED <<concurrent_builds, main_result, fatal, blacklisted,
                 fetcher_pc, org, task, queue, cur, archs_todo, deb_paths, tx_alive,
                 tx_clones, chan, writer_pc, bl_file, dsc, source_calls,
                 published>>
  /\ UNCHANGED <<collateVars, blVars, fetchVars, dpkgVars, archVars, pageVars>>

NextOrch ==
  \/ \E ok \in BOOLEAN : ConfigNew(ok)
  \/ \E ok \in BOOLEAN : Startup(ok)
  \/ \E ok \in BOOLEAN : Organization(ok)
  \/ \E r \in Repos, ok \in BOOLEAN : FetchYield(r, ok)
  \/ \E r \in Repos : \E o \in Orders(RepoBranches(r)) : BuildQueue(r, o)
  \/ \E r \in Repos : BuildQueuePanic(r)
  \/ \E r \in Repos : \E c \in queue[r] : NextCell(r, c)
  \/ \E r \in Repos : SourceFails(r)
  \/ \E r \in Repos : SourceCached(r)
  \/ \E r \in Repos : DebuildSpawn(r)
  \/ \E r \in Repos, ok \in BOOLEAN : DebuildExit(r, ok)
  \/ \E r \in Repos, a \in Archs, ok \in BOOLEAN : Binary(r, a, ok)
  \/ \E r \in Repos : ProcessRepoReturn(r)
  \/ ForEachDone
  \/ WriterRecv
  \/ MainReturn
  \/ MainExit


----------------------------------------------------------------------------
(* collate::build_queue as a process: SpecCollate *)

\* branch names a repository may carry, and the commit of each
CollateNames == <<master, master_A, master_A_x, master_B, release>>
CollateSha(i) == <<"b", (<<"1", "2", "3", "4", "5">>)[i]>>
CollateBranch(i) == [name |-> CollateNames[i], sha |-> CollateSha(i)]

\* fetcher.rs line 145: branches.sort_by(|a, b| a.name.cmp(&b.name))
RECURSIVE SortByName(_)
SortByName(bs) ==
  IF bs = {} THEN <<>>
  ELSE LET least == CHOOSE b \in bs : \A c \in bs \ {b} : StrLess(b.name, c.name)
       IN <<least>> \o SortByName(bs \ {least})

\* the repositories given to build_queue: up to MaxBranches branches
CollateRepos ==
  {SortByName({CollateBranch(i) : i \in I}) :
     I \in {J \in SUBSET (1..Len(CollateNames)) : Cardinality(J) <= MaxBranches}}

IdleCollate ==
  /\ cq_pc = "idle"
  /\ cq_series = {}
  /\ cq_wildcard = <<>>
  /\ cq_branches = <<>>
  /\ cq_pending = {}
  /\ cq_done = <<>>
  /\ cq_queue = <<>>

InitCollate ==
  /\ cq_pc = "call"
  /\ cq_series \in (SUBSET {SeriesA, SeriesB}) \ {{}}
  /\ cq_wildcard \in [cq_series -> BOOLEAN]
  /\ cq_branches \in CollateRepos
  /\ cq_pending = {}
  /\ cq_done = <<>>
  /\ cq_queue = <<>>

\* build_queue lines 12-48: one empty pocket map per series, one archive
\* future per branch in a FuturesUnordered
CollateStart ==
  /\ cq_pc = "call"
  /\ cq_pc' = "stream"
  /\ cq_queue' = EmptyQueue(cq_series)
  /\ cq_pending' = 1..Len(cq_branches)
  /\ UNCHANGED <<cq_series, cq_wildcard, cq_branches, cq_done>>
  /\ UNCHANGED <<orchVars, blVars, fetchVars, dpkgVars, archVars, pageVars>>

\* build_queue lines 51-66: stream.next() yields the archive of branch i, which
\* is any of those still pending, and the loop body collates it
ArchiveDone(i) ==
  /\ cq_pc = "stream"
  /\ i \in cq_pending
  /\ cq_queue' = CollateOne(cq_queue, cq_branches[i], GitTarOf(cq_branches[i]))
  /\ cq_pending' = cq_pending \ {i}
  /\ cq_done' = Append(cq_done, cq_branches[i])
  /\ UNCHANGED <<cq_pc, cq_series, cq_wildcard, cq_branches>>
  /\ UNCHANGED <<orchVars, blVars, fetchVars, dpkgVars, archVars, pageVars>>

\* build_queue lines 41-43: GitTar::new returned Err and unwrap() panics
ArchiveFails(i) ==
  /\ cq_pc = "stream"
  /\ i \in cq_pending
  /\ cq_pc' = "panicked"
  /\ UNCHANGED <<cq_series, cq_wildcard, cq_branches, cq_pending, cq_done, cq_queue>>
  /\ UNCHANGED <<orchVars, blVars, fetchVars, dpkgVars, archVars, pageVars>>

\* build_queue line 68: the stream is exhausted, the queue is returned
CollateReturn ==
  /\ cq_pc = "stream"
  /\ cq_pending = {}
  /\ cq_pc' = "done"
  /\ UNCHANGED <<cq_series, cq_wildcard, cq_branches, cq_pending, cq_done, cq_queue>>
  /\ UNCHANGED <<orchVars, blVars, fetchVars, dpkgVars, archVars, pageVars>>

NextCollate ==
  \/ CollateStart
  \/ \E i \in 1..MaxBranches : ArchiveDone(i)
  \/ \E i \in 1..MaxBranches : ArchiveFails(i)
  \/ CollateReturn


----------------------------------------------------------------------------
(* blacklist.rs and the blacklist writer: SpecBlacklist *)

\* str::lines: the pieces between newlines, without a last empty piece
Lines(text) ==
  LET ps == Split(text, NL)
  IN IF ps[Len(ps)] = <<>> THEN SubSeq(ps, 1, Len(ps) - 1) ELSE ps

\* blacklist::fetch lines 33-40: a line is split at its first space
ParseLine(line) ==
  IF \A i \in 1..Len(line) : line[i] # SP THEN None
  ELSE LET pos == CHOOSE k \in 1..Len(line) :
                    line[k] = SP /\ \A j \in 1..(k-1) : line[j] # SP
       IN Some(<<SubSeq(line, 1, pos - 1), SubSeq(line, pos + 1, Len(line))>>)

\* (mutant) config.retry is not looked at
BlacklistFetch_IgnoreRetry(retry, exists, bytes) ==
  IF ~exists
    THEN [bytes |-> <<>>, entries |-> <<>>]
    ELSE LET ls == Lines(bytes)
             parsed == [i \in 1..Len(ls) |-> ParseLine(ls[i])]
         IN IF \E i \in 1..Len(ls) : parsed[i] = None
              THEN [bytes |-> <<>>, entries |-> <<>>]
              ELSE [bytes |-> bytes, entries |-> [i \in 1..Len(ls) |-> parsed[i][1]]]

\* blacklist::fetch: the file after the call and the entries returned
BlacklistFetch(retry, exists, bytes) ==
  IF retry \/ ~exists
    THEN [bytes |-> <<>>, entries |-> <<>>]
    ELSE LET ls == Lines(bytes)
             parsed == [i \in 1..Len(ls) |-> ParseLine(ls[i])]
         IN IF \E i \in 1..Len(ls) : parsed[i] = None
              THEN [bytes |-> <<>>, entries |-> <<>>]
              ELSE [bytes |-> bytes, entries |-> [i \in 1..Len(ls) |-> parsed[i][1]]]

\* main_ lines 113-117: the line the writer appends for an entry
WriterLine(entry) == entry[1] \o <<SP>> \o entry[2] \o <<NL>>

\* process_repo line 190: the entry sent for a cell whose source build failed
EntryOf(cell) == <<cell.id, cell.series>>

\* the cells of the runs: the wildcard branch master at commit a1, and the
\* branch master_B at commit a2
BfCells ==
  { [series |-> SeriesA, pocket |-> master, id |-> <<"a", "1">>],
    [series |-> SeriesB, pocket |-> master, id |-> <<"a", "2">>] }

\* what the first run may find at _build/blacklist: no file, an empty file,
\* the line "a1 A", the same without its newline, a line without a space,
\* and a line with a trailing space
BfInitialFiles ==
  { [exists |-> FALSE, bytes |-> <<>>],
    [exists |-> TRUE, bytes |-> <<>>],
    [exists |-> TRUE, bytes |-> <<"a", "1", SP, "A", NL>>],
    [exists |-> TRUE, bytes |-> <<"a", "1", SP, "A">>],
    [exists |-> TRUE, bytes |-> <<"a", "1", NL>>],
    [exists |-> TRUE, bytes |-> <<"a", "1", SP, "A", SP, NL>>] }

IdleBl ==
  /\ bf_pc = "idle"
  /\ bf_run = 0
  /\ bf_retry = FALSE
  /\ bf_exists = FALSE
  /\ bf_bytes = <<>>
  /\ bf_loaded = <<>>
  /\ bf_failed = {}
  /\ bf_prev_failed = {}
  /\ bf_consulted = {}

InitBl ==
  /\ bf_pc = "startup"
  /\ bf_run = 1
  /\ bf_retry \in BOOLEAN
  /\ \E f \in BfInitialFiles : bf_exists = f.exists /\ bf_bytes = f.bytes
  /\ bf_loaded = <<>>
  /\ bf_failed = {}
  /\ bf_prev_failed = {}
  /\ bf_consulted = {}

\* startup lines 32-42: blacklist::fetch(buffer, path, config.retry)
BfStartup ==
  /\ bf_pc = "startup"
  /\ LET got == BlacklistFetch(bf_retry, bf_exists, bf_bytes)
     IN /\ bf_bytes' = got.bytes
        /\ bf_loaded' = got.entries
  /\ bf_exists' = TRUE
  /\ bf_pc' = "running"
  /\ UNCHANGED <<bf_run, bf_retry, bf_failed, bf_prev_failed, bf_consulted>>
  /\ UNCHANGED <<orchVars, collateVars, fetchVars, dpkgVars, archVars, pageVars>>

\* process_repo lines 146-151: the consult of the loaded entries for a cell
BfConsult(c) ==
  /\ bf_pc = "running"
  /\ bf_consulted' = bf_consulted \cup
       {[cell |-> c, hit |-> IsBlacklisted({bf_loaded[i] : i \in 1..Len(bf_loaded)}, c)]}
  /\ UNCHANGED <<bf_pc, bf_run, bf_retry, bf_exists, bf_bytes, bf_loaded, bf_failed,
                 bf_prev_failed>>
  /\ UNCHANGED <<orchVars, collateVars, fetchVars, dpkgVars, archVars, pageVars>>

\* process_repo lines 184-192 and main_ lines 110-121: the source build of the
\* cell fails, its entry is sent, and the writer appends the line at the end of
\* the file (the handle stands at the end after read_to_string or create)
BfFailure(c) ==
  /\ bf_pc = "running"
  /\ Cardinality(bf_failed) < MaxFailures
  /\ c \notin bf_failed
  /\ bf_bytes' = bf_bytes \o WriterLine(EntryOf(c))
  /\ bf_failed' = bf_failed \cup {c}
  /\ UNCHANGED <<bf_pc, bf_run, bf_retry, bf_exists, bf_loaded, bf_prev_failed,
                 bf_consulted>>
  /\ UNCHANGED <<orchVars, collateVars, fetchVars, dpkgVars, archVars, pageVars>>

\* the process ends and is started again, with or without PACKAGING_RETRY=1
BfNextRun(retry) ==
  /\ bf_pc = "running"
  /\ bf_run < MaxRuns
  /\ bf_run' = bf_run + 1
  /\ bf_retry' = retry
  /\ bf_pc' = "startup"
  /\ bf_loaded' = <<>>
  /\ bf_prev_failed' = bf_failed
  /\ bf_failed' = {}
  /\ bf_consulted' = {}
  /\ UNCHANGED <<bf_exists, bf_bytes>>
  /\ UNCHANGED <<orchVars, collateVars, fetchVars, dpkgVars, archVars, pageVars>>

NextBl ==
  \/ BfStartup
  \/ \E c \in BfCells : BfConsult(c)
  \/ \E c \in BfCells : BfFailure(c)
  \/ \E retry \in BOOLEAN : BfNextRun(retry)

----------------------------------------------------------------------------
(* fetcher.rs and git.rs: SpecFetch *)

\* the repositories of the organization, as Fetcher::repos receives them
FetchRepos == 1..NumFetchRepos
\* config.dirs.base, the directory the process runs in
BaseDir == <<"base">>
\* Fetcher::branches line 87: cwd = config.dirs.base.join(repo.name)
Tree(r) == <<"base", r>>

FtSha(r, k) == <<"b", HexDigit[r], HexDigit[k]>>
slash_branch == <<"x", "/", "m">>
slash_release == <<"r", "/", "m">>

\* the branch names of the forge, and the branch of name number i of
\* repository r (number 4 is the stale local head of TreeScenarios)
ListingNames == <<master, master_A, slash_branch, master_B, release, slash_release>>
ListingBranch(r, i) == [name |-> ListingNames[i], sha |-> FtSha(r, i)]

\* the listing of the concurrent fetches: x/m, master, master_A
DefaultListing(r) == <<ListingBranch(r, 3), ListingBranch(r, 1), ListingBranch(r, 2)>>

\* every listing of up to MaxListing distinct branches
Listings(r) ==
  LET I == {1, 2, 3, 5, 6}
      picks == UNION {[1..n -> I] : n \in 0..MaxListing}
  IN {[k \in DOMAIN f |-> ListingBranch(r, f[k])] :
        f \in {g \in picks : \A a, b \in DOMAIN g : a # b => g[a] # g[b]}}

\* github::repository_branches: the branches of the repository on the forge
RemoteListing(r) == ft_listing[r]

\* str::contains for one character
Contains(name, c) == \E i \in 1..Len(name) : name[i] = c

\* Vec::swap_remove: the last element takes the place of the removed one
swap_remove(v, i) ==
  IF i = Len(v) THEN SubSeq(v, 1, Len(v) - 1)
  ELSE SubSeq([v EXCEPT ![i] = v[Len(v)]], 1, Len(v) - 1)

\* fetch_remote_branches lines 186-194: the indices of the names holding "/"
\* are removed from the last to the first
RECURSIVE SwapRemoveFrom(_, _, _)
SwapRemoveFrom(listing, v, i) ==
  IF i = 0 THEN v
  ELSE SwapRemoveFrom(listing,
                      IF Contains(listing[i].name, "/") THEN swap_remove(v, i) ELSE v,
                      i - 1)

\* (mutant) the listing is passed on as the forge gave it
fetch_remote_branches_NoFilter(listing) == listing

fetch_remote_branches(listing) == SwapRemoveFrom(listing, listing, Len(listing))

\* the local branches of a tree git clone has just made: the default branch
ClonedHeads(r) == (master :> FtSha(r, 1))

\* what Fetcher::branches may find on disk: no tree, a tree whose master is
\* behind and that has no master_A, a tree that is up to date
TreeScenarios(r) ==
  { [exists |-> FALSE, heads |-> <<>>],
    [exists |-> TRUE, heads |-> (master :> FtSha(r, 4))],
    [exists |-> TRUE, heads |-> (master :> FtSha(r, 1)) @@ (master_A :> FtSha(r, 2))] }

\* a git subprocess: the repository whose future spawned it, the directory it
\* runs in, and the working tree it writes
GitCmd(r, cmd, cwd, tree, arg) ==
  [repo |-> r, cmd |-> cmd, cwd |-> cwd, tree |-> tree, arg |-> arg]

\* git::clone runs in the parent directory and makes the tree
git_clone(r) == GitCmd(r, "clone", BaseDir, Tree(r), <<>>)
\* git::local_branch_and_ids
git_branch(r) == GitCmd(r, "branch", Tree(r), Tree(r), <<>>)
\* git::fetch
git_fetch(r) == GitCmd(r, "fetch", Tree(r), Tree(r), <<>>)
\* git::checkout_id: submodule update is given no cwd and runs in BaseDir
checkout_id(r, id) ==
  << GitCmd(r, "checkout", Tree(r), Tree(r), id),
     GitCmd(r, "submodule sync", Tree(r), Tree(r), id),
     GitCmd(r, "submodule update", BaseDir, BaseDir, id),
     GitCmd(r, "clean", Tree(r), Tree(r), id) >>

\* fetch_local_branches: the commands it runs one after another
LocalPlan(r) ==
  (IF ft_exists[r] THEN <<>> ELSE <<git_clone(r)>>) \o <<git_branch(r)>>

\* Fetcher::branches lines 114-116
RequiredCheckout(local, b) ==
  IF b.name \in DOMAIN local THEN local[b.name] # b.sha ELSE TRUE

\* Fetcher::branches lines 112-136: the commands of the serial loop
RECURSIVE LoopPlan(_, _, _, _)
LoopPlan(r, remote, local, fetched) ==
  IF remote = <<>> THEN <<>>
  ELSE LET b == Head(remote)
       IN IF RequiredCheckout(local, b)
            THEN (IF fetched THEN <<>> ELSE <<git_fetch(r)>>)
                   \o checkout_id(r, b.sha)
                   \o LoopPlan(r, Tail(remote), local, TRUE)
            ELSE LoopPlan(r, Tail(remote), local, fetched)

\* the commands of the phase the future of r is in
Plan(r) ==
  IF ft_pc[r] = "join" THEN LocalPlan(r)
  ELSE LoopPlan(r, fetch_remote_branches(RemoteListing(r)), ft_heads[r], FALSE)

\* Fetcher::branches lines 138-145: the branches of the Repository
RepositoryBranches(r) ==
  LET remote == fetch_remote_branches(RemoteListing(r))
  IN SortByName({ [name |-> remote[i].name, sha |-> remote[i].sha,
                   required_checkout |-> RequiredCheckout(ft_heads[r], remote[i])] :
                  i \in 1..Len(remote) })

\* (mutant) the next command is spawned without awaiting the one before
Awaited_NoWait(r) == TRUE

\* every git call is awaited (.await) before the next statement runs
Awaited(r) == ft_wait[r] = None

\* the subprocesses spawned by the future of r
RunningOf(r) == {x \in ft_running : x.repo = r}

IdleFetch ==
  /\ ft_listing = [r \in FetchRepos |-> <<>>]
  /\ ft_pc = [r \in FetchRepos |-> "idle"]
  /\ ft_exists = [r \in FetchRepos |-> FALSE]
  /\ ft_heads = [r \in FetchRepos |-> <<>>]
  /\ ft_remote = [r \in FetchRepos |-> "pending"]
  /\ ft_k = [r \in FetchRepos |-> 0]
  /\ ft_wait = [r \in FetchRepos |-> None]
  /\ ft_running = {}
  /\ ft_emitted = [r \in FetchRepos |-> None]
  /\ ft_log = [r \in FetchRepos |-> <<>>]

\* Fetcher::repos: one future per repository, all polled together
InitFetch ==
  /\ ft_listing = [r \in FetchRepos |-> DefaultListing(r)]
  /\ ft_pc = [r \in FetchRepos |-> "join"]
  /\ \E sc \in [FetchRepos -> UNION {TreeScenarios(r) : r \in FetchRepos}] :
       /\ \A r \in FetchRepos : sc[r] \in TreeScenarios(r)
       /\ ft_exists = [r \in FetchRepos |-> sc[r].exists]
       /\ ft_heads = [r \in FetchRepos |-> sc[r].heads]
  /\ ft_remote = [r \in FetchRepos |-> "pending"]
  /\ ft_k = [r \in FetchRepos |-> 0]
  /\ ft_wait = [r \in FetchRepos |-> None]
  /\ ft_running = {}
  /\ ft_emitted = [r \in FetchRepos |-> None]
  /\ ft_log = [r \in FetchRepos |-> <<>>]

\* Fetcher::branches for one repository and any listing of the forge
InitListing ==
  /\ ft_listing \in {[r \in FetchRepos |-> IF r = 1 THEN l ELSE <<>>] : l \in Listings(1)}
  /\ ft_pc = [r \in FetchRepos |-> IF r = 1 THEN "join" ELSE "idle"]
  /\ \E sc \in TreeScenarios(1) :
       /\ ft_exists = [r \in FetchRepos |-> r = 1 /\ sc.exists]
       /\ ft_heads = [r \in FetchRepos |-> IF r = 1 THEN sc.heads ELSE <<>>]
  /\ ft_remote = [r \in FetchRepos |-> "pending"]
  /\ ft_k = [r \in FetchRepos |-> 0]
  /\ ft_wait = [r \in FetchRepos |-> None]
  /\ ft_running = {}
  /\ ft_emitted = [r \in FetchRepos |-> None]
  /\ ft_log = [r \in FetchRepos |-> <<>>]

\* misc::check_call / check_output: the next git command of the future is spawned
FtSpawn(r) ==
  /\ ft_pc[r] \in {"join", "loop"}
  /\ Awaited(r)
  /\ ft_k[r] < Len(Plan(r))
  /\ LET c == Plan(r)[ft_k[r] + 1]
     IN /\ ft_running' = ft_running \cup {c}
        /\ ft_wait' = [ft_wait EXCEPT ![r] = Some(c)]
  /\ ft_k' = [ft_k EXCEPT ![r] = @ + 1]
  /\ ft_log' = [ft_log EXCEPT ![r] = Append(@, Plan(r)[ft_k[r] + 1])]
  /\ UNCHANGED <<ft_pc, ft_exists, ft_heads, ft_remote, ft_emitted, ft_listing>>
  /\ UNCHANGED <<orchVars, collateVars, blVars, dpkgVars, archVars, pageVars>>

\* the awaited command exits; a failure is returned with `?` or `return Err`
FtExit(r, ok) ==
  /\ ft_wait[r] # None
  /\ LET c == ft_wait[r][1]
     IN /\ ft_running' = IF ok THEN ft_running \ {c} ELSE ft_running \ RunningOf(r)
        /\ ft_heads' = IF ok /\ c.cmd = "clone"
                         THEN [ft_heads EXCEPT ![r] = ClonedHeads(r)]
                         ELSE ft_heads
  /\ ft_wait' = [ft_wait EXCEPT ![r] = None]
  /\ ft_pc' = IF ok THEN ft_pc ELSE [ft_pc EXCEPT ![r] = "err"]
  /\ UNCHANGED <<ft_exists, ft_remote, ft_k, ft_emitted, ft_log, ft_listing>>
  /\ UNCHANGED <<orchVars, collateVars, blVars, dpkgVars, archVars, pageVars>>

\* the remote future of try_join! completes; on Err try_join! returns and drops
\* the local future, whose child is killed with it
FtRemote(r, ok) ==
  /\ ft_pc[r] = "join"
  /\ ft_remote[r] = "pending"
  /\ IF ok
       THEN /\ ft_remote' = [ft_remote EXCEPT ![r] = "ok"]
            /\ UNCHANGED <<ft_pc, ft_wait, ft_running>>
       ELSE /\ ft_remote' = [ft_remote EXCEPT ![r] = "err"]
            /\ ft_pc' = [ft_pc EXCEPT ![r] = "err"]
            /\ ft_wait' = [ft_wait EXCEPT ![r] = None]
            /\ ft_running' = ft_running \ RunningOf(r)
  /\ UNCHANGED <<ft_exists, ft_heads, ft_k, ft_emitted, ft_log, ft_listing>>
  /\ UNCHANGED <<orchVars, collateVars, blVars, dpkgVars, archVars, pageVars>>

\* Fetcher::branches line 101: both futures of try_join! are Ok
FtJoined(r) ==
  /\ ft_pc[r] = "join"
  /\ ft_remote[r] = "ok"
  /\ ft_k[r] = Len(LocalPlan(r))
  /\ ft_wait[r] = None
  /\ ft_pc' = [ft_pc EXCEPT ![r] = "loop"]
  /\ ft_k' = [ft_k EXCEPT ![r] = 0]
  /\ UNCHANGED <<ft_exists, ft_heads, ft_remote, ft_wait, ft_running, ft_emitted, ft_log, ft_listing>>
  /\ UNCHANGED <<orchVars, collateVars, blVars, dpkgVars, archVars, pageVars>>

\* Fetcher::branches lines 145-151: the loop is over, the Repository is returned
FtReturn(r) ==
  /\ ft_pc[r] = "loop"
  /\ ft_k[r] = Len(Plan(r))
  /\ ft_wait[r] = None
  /\ ft_pc' = [ft_pc EXCEPT ![r] = "ok"]
  /\ ft_emitted' = [ft_emitted EXCEPT ![r] = Some(RepositoryBranches(r))]
  /\ UNCHANGED <<ft_exists, ft_heads, ft_remote, ft_k, ft_wait, ft_running, ft_log, ft_listing>>
  /\ UNCHANGED <<orchVars, collateVars, blVars, dpkgVars, archVars, pageVars>>

NextFetch ==
  \/ \E r \in FetchRepos : FtSpawn(r)
  \/ \E r \in FetchRepos : \E ok \in BOOLEAN : FtExit(r, ok)
  \/ \E r \in FetchRepos : \E ok \in BOOLEAN : FtRemote(r, ok)
  \/ \E r \in FetchRepos : FtJoined(r)
  \/ \E r \in FetchRepos : FtReturn(r)

----------------------------------------------------------------------------
(* process_repo, Dpkg::source and Dpkg::binary over one build directory:
   SpecDpkg *)

\* the cells of the repository: pockets of series A that hold one commit
DpId == <<"c", "1">>
DpPockets == <<master, release, <<"x">>>>
DpCell(i) == [series |-> SeriesA, pocket |-> DpPockets[i], id |-> DpId]
DpQueues == {[i \in 1..n |-> DpCell(i)] : n \in 1..DpCells}

\* the files of _build that belong to (commit, series A)
GitArchive == <<"git", "tar">>
DscFile == <<"source", "dsc">>
TarFile == <<"source", "tar.xz">>
BuildLog(arch) == <<"build", arch>>
DebFile(binary, deb_arch) == <<binary, deb_arch>>

\* the entry of config.archs the cells are built for
build_arch == "amd64"
build_all == TRUE

\* a line of the Package-List: binary, kind, and the architectures of arch=
Pkg(binary, kind, archs) == [binary |-> binary, kind |-> kind, archs |-> archs]
PackageLists ==
  { <<>>,
    <<Pkg("p", "deb", <<"any">>)>>,
    <<Pkg("p", "deb", <<"any">>), Pkg("q", "deb", <<"all">>)>>,
    <<Pkg("u", "udeb", <<"any">>), Pkg("p", "deb", <<"arm64">>)>>,
    <<Pkg("p", "deb", <<"linux-any", "amd64">>)>> }

\* a line of the .dsc: what it starts with, its length in bytes, and for an
\* indented line of the Package-List block the package it declares
DscLine(head, len, pkg) == [head |-> head, len |-> len, pkg |-> pkg]
NoPkg == Pkg("", "", <<>>)

\* the .dsc of a source package with the Package-List pkgs: Format, Source,
\* Version, Package-List and its indented lines, Checksums-Sha1
Dsc(pkgs) ==
  <<DscLine("other", 11, NoPkg), DscLine("Source:", 9, NoPkg),
    DscLine("Version:", 10, NoPkg), DscLine("Package-List:", 13, NoPkg)>>
  \o [i \in 1..Len(pkgs) |-> DscLine(" ", 20, pkgs[i])]
  \o <<DscLine("other", 15, NoPkg)>>

\* parse_dsc lines 485-491: the number of lines from line i on that start
\* with a space
RECURSIVE IndentedRun(_, _)
IndentedRun(lines, i) ==
  IF i <= Len(lines) /\ lines[i].head = " " THEN 1 + IndentedRun(lines, i + 1) ELSE 0

\* parse_dsc lines 474, 487: read += line.len() + 1 over the lines a..b
RECURSIVE BytesOf(_, _, _)
BytesOf(lines, a, b) ==
  IF a > b THEN 0 ELSE lines[a].len + 1 + BytesOf(lines, a + 1, b)

\* parse_dsc lines 473-506, from line i on with `read` bytes read: the slice
\* &dsc[start..read - 1] of line 493 panics when read - 1 < start, which is
\* the case when no indented line follows "Package-List:"; the line that ends
\* the block is taken from the iterator and not looked at again
RECURSIVE parse_dsc_from(_, _, _, _)
parse_dsc_from(lines, i, read, st) ==
  IF st.set = 3 THEN [kind |-> "Ok", package_list |-> st.package_list[1]]
  ELSE IF i > Len(lines)
    THEN IF ~st.source \/ ~st.version \/ st.package_list = None
           THEN [kind |-> "Err", package_list |-> <<>>]
           ELSE [kind |-> "panic", package_list |-> <<>>]
  ELSE LET line == lines[i]
           read1 == read + line.len + 1
       IN IF ~st.source /\ line.head = "Source:"
            THEN parse_dsc_from(lines, i + 1, read1,
                                [st EXCEPT !.source = TRUE, !.set = @ + 1])
          ELSE IF ~st.version /\ line.head = "Version:"
            THEN parse_dsc_from(lines, i + 1, read1,
                                [st EXCEPT !.version = TRUE, !.set = @ + 1])
          ELSE IF st.package_list = None /\ line.head = "Package-List:"
            THEN LET n == IndentedRun(lines, i + 1)
                     start == read1
                     read2 == read1 + BytesOf(lines, i + 1, i + n)
                 IN IF read2 - 1 < start
                      THEN [kind |-> "panic", package_list |-> <<>>]
                      ELSE parse_dsc_from(lines, i + n + 2, read2,
                             [st EXCEPT !.package_list =
                                          Some([k \in 1..n |-> lines[i + k].pkg]),
                                        !.set = @ + 1])
          ELSE parse_dsc_from(lines, i + 1, read1, st)

\* parse_dsc: Ok with the lines of the Package-List block, Err, or a panic
parse_dsc(lines) ==
  parse_dsc_from(lines, 1, 0,
                 [source |-> FALSE, version |-> FALSE, package_list |-> None, set |-> 0])

\* Dpkg::binary lines 92-109: the .deb paths of one package line
RECURSIVE ArchDebs(_, _)
ArchDebs(binary, archs) ==
  IF archs = <<>> THEN <<>>
  ELSE LET arch == Head(archs)
           rest == ArchDebs(binary, Tail(archs))
       IN IF arch = "any" \/ arch = "linux-any" \/ arch = build_arch
            THEN <<DebFile(binary, build_arch)>> \o rest
          ELSE IF build_all /\ arch = "all"
            THEN <<DebFile(binary, "all")>> \o rest
          ELSE rest

\* (mutant) the paths of the later package lines come first
RECURSIVE ExpectedDebs_Reversed(_)
ExpectedDebs_Reversed(pkgs) ==
  IF pkgs = <<>> THEN <<>>
  ELSE ExpectedDebs_Reversed(Tail(pkgs))
       \o (IF Head(pkgs).kind = "udeb" THEN <<>>
           ELSE ArchDebs(Head(pkgs).binary, Head(pkgs).archs))

\* Dpkg::binary lines 62-110: the expected .deb paths, in the order of the
\* Package-List (the repository is neither linux nor systemd)
RECURSIVE ExpectedDebs(_)
ExpectedDebs(pkgs) ==
  IF pkgs = <<>> THEN <<>>
  ELSE (IF Head(pkgs).kind = "udeb" THEN <<>>
        ELSE ArchDebs(Head(pkgs).binary, Head(pkgs).archs))
       \o ExpectedDebs(Tail(pkgs))

SeqRange(q) == {q[i] : i \in 1..Len(q)}

\* (mutant) the source is always taken as not built
SourceBuilt_Never(disk) == FALSE

\* Dpkg::source line 324
SourceBuilt(disk) == DscFile \in disk /\ TarFile \in disk

\* (mutant) the binaries are always taken as missing
found_binaries_Never(debs, disk) == FALSE

\* Dpkg::binary lines 60, 104-106
found_binaries(debs, disk) == \A i \in 1..Len(debs) : debs[i] \in disk

\* (mutant) the build log of an earlier build is not looked at
PreviouslyFailed_Never(disk) == FALSE

\* (mutant) retry mode also forgets the build log of an earlier build
PreviouslyFailed_UnlessRetry(disk) == BuildLog(build_arch) \in disk /\ ~dp_retry

\* Dpkg::binary line 125
PreviouslyFailed(disk) == BuildLog(build_arch) \in disk

\* (mutant) the expected paths are returned unverified
ReturnedDebs_Unverified(debs, disk) == debs

\* Dpkg::binary lines 242-255
ReturnedDebs(debs, disk) ==
  IF \E i \in 1..Len(debs) : debs[i] \notin disk THEN <<>> ELSE debs

\* (mutant) sbuild leaves no build log
SbuildLeaves_NoLog(made) == made

\* what sbuild leaves in _build/binary: the packages it made and its log
SbuildLeaves(made) == made \cup {BuildLog(build_arch)}

\* what a run may find under _build
DpDisks(pkgs) ==
  LET debs == SeqRange(ExpectedDebs(pkgs))
      src == {GitArchive, DscFile, TarFile}
  IN { {}, {GitArchive, DscFile}, src, src \cup {BuildLog(build_arch)},
       src \cup debs, src \cup debs \cup {BuildLog(build_arch)} }

NoRet == [fn |-> "none", ok |-> TRUE, value |-> <<>>, trace |-> <<>>, snap |-> {}]
Ret(fn, ok, value, trace) ==
  [fn |-> fn, ok |-> ok, value |-> value, trace |-> trace, snap |-> dp_snap]

IdleDpkg ==
  /\ dp_pc = "idle"
  /\ dp_run = 0
  /\ dp_queue = <<>>
  /\ dp_todo = <<>>
  /\ dp_cell = NoCell
  /\ dp_disk = {}
  /\ dp_pkgs = <<>>
  /\ dp_patches = FALSE
  /\ dp_start = {}
  /\ dp_snap = {}
  /\ dp_trace = <<>>
  /\ dp_calls = <<>>
  /\ dp_ret = NoRet
  /\ dp_sent = <<>>
  /\ dp_ok = TRUE
  /\ dp_prev_ok = FALSE
  /\ dp_prev_calls = <<>>
  /\ dp_retry = FALSE
  /\ dp_blfile = <<>>

InitDpkg ==
  /\ dp_pc = "build_queue"
  /\ dp_run = 1
  /\ dp_queue \in DpQueues
  /\ dp_todo = <<>>
  /\ dp_cell = NoCell
  /\ dp_pkgs \in PackageLists
  /\ dp_disk \in DpDisks(dp_pkgs)
  /\ dp_patches \in BOOLEAN
  /\ dp_start = dp_disk
  /\ dp_snap = {}
  /\ dp_trace = <<>>
  /\ dp_calls = <<>>
  /\ dp_ret = NoRet
  /\ dp_sent = <<>>
  /\ dp_ok = TRUE
  /\ dp_prev_ok = FALSE
  /\ dp_prev_calls = <<>>
  /\ dp_retry = FALSE
  /\ dp_blfile = <<>>

\* misc::check_call / check_output and the library calls that are tools of the
\* claims: the function in progress invokes tools
Invoke(tools) ==
  /\ dp_trace' = dp_trace \o tools
  /\ dp_calls' = dp_calls \o tools

\* process_repo line 139 and collate.rs lines 27-48: GitTar::new for every branch
\* runs git log twice and, when the archive is missing, git archive (each of the
\* concurrent GitTar::new may find it missing); an Err panics through unwrap
DpBuildQueue(ok, n) ==
  /\ dp_pc = "build_queue"
  /\ n = 1 \/ GitArchive \notin dp_disk
  /\ dp_calls' = dp_calls
       \o [i \in 1..(2 * Len(dp_queue)) |-> "git log"]
       \o (IF GitArchive \in dp_disk THEN <<>> ELSE [i \in 1..n |-> "git archive"])
  /\ dp_disk' = IF ok THEN dp_disk \cup {GitArchive} ELSE dp_disk
  /\ dp_pc' = IF ok THEN "next_cell" ELSE "panicked"
  /\ dp_todo' = IF ok THEN dp_queue ELSE <<>>
  /\ UNCHANGED <<dp_run, dp_queue, dp_cell, dp_pkgs, dp_patches, dp_start, dp_snap,
                 dp_trace, dp_ret, dp_sent, dp_ok, dp_prev_ok, dp_prev_calls>>
  /\ UNCHANGED <<dp_retry, dp_blfile>>
  /\ UNCHANGED <<orchVars, collateVars, blVars, fetchVars, archVars, pageVars>>

\* process_repo lines 143-163: the next cell is taken and dpkg.source() called
DpNextCell ==
  /\ dp_pc = "next_cell"
  /\ IF dp_todo = <<>>
       THEN /\ dp_pc' = "run_over"
            /\ UNCHANGED <<dp_todo, dp_cell, dp_snap>>
       ELSE /\ dp_pc' = "src_prepare"
            /\ dp_cell' = Head(dp_todo)
            /\ dp_todo' = Tail(dp_todo)
            /\ dp_snap' = dp_disk
  /\ dp_trace' = <<>>
  /\ UNCHANGED <<dp_run, dp_queue, dp_disk, dp_pkgs, dp_patches, dp_start, dp_calls,
                 dp_ret, dp_sent, dp_ok, dp_prev_ok, dp_prev_calls>>
  /\ UNCHANGED <<dp_retry, dp_blfile>>
  /\ UNCHANGED <<orchVars, collateVars, blVars, fetchVars, archVars, pageVars>>

\* Dpkg::source returns Err; process_repo lines 184-192 send the entry
SourceErr ==
  /\ dp_ret' = Ret("source", FALSE, <<>>, dp_trace')
  /\ dp_sent' = Append(dp_sent, <<dp_cell.id, dp_cell.series>>)
  /\ dp_ok' = FALSE
  /\ dp_pc' = "next_cell"

\* Dpkg::source lines 274-304: the extract directory is made anew, the archive
\* extracted with tar, debian/control read, the version asked of
\* dpkg-parsechangelog
DpSrcPrepare(ok) ==
  /\ dp_pc = "src_prepare"
  /\ Invoke(<<"tar", "dpkg-parsechangelog">>)
  /\ IF ok THEN dp_pc' = "src_check" /\ UNCHANGED <<dp_ret, dp_sent, dp_ok>>
           ELSE SourceErr
  /\ UNCHANGED <<dp_run, dp_queue, dp_todo, dp_cell, dp_disk, dp_pkgs, dp_patches,
                 dp_start, dp_snap, dp_prev_ok, dp_prev_calls>>
  /\ UNCHANGED <<dp_retry, dp_blfile>>
  /\ UNCHANGED <<orchVars, collateVars, blVars, fetchVars, archVars, pageVars>>

\* Dpkg::source lines 324-329: the idempotence check
DpSrcCheck ==
  /\ dp_pc = "src_check"
  /\ dp_pc' = IF SourceBuilt(dp_disk) THEN "src_verify" ELSE "src_stamp"
  /\ UNCHANGED <<dp_run, dp_queue, dp_todo, dp_cell, dp_disk, dp_pkgs, dp_patches,
                 dp_start, dp_snap, dp_trace, dp_calls, dp_ret, dp_sent, dp_ok,
                 dp_prev_ok, dp_prev_calls>>
  /\ UNCHANGED <<dp_retry, dp_blfile>>
  /\ UNCHANGED <<orchVars, collateVars, blVars, fetchVars, archVars, pageVars>>

\* Dpkg::source lines 351-388: the changelog entry is appended and, when
\* debian/patches exists, quilt push -a is run
DpSrcStamp(ok) ==
  /\ dp_pc = "src_stamp"
  /\ Invoke(IF dp_patches THEN <<"changelog_append", "quilt">> ELSE <<"changelog_append">>)
  /\ IF ok THEN dp_pc' = "src_debuild" /\ UNCHANGED <<dp_ret, dp_sent, dp_ok>>
           ELSE SourceErr
  /\ UNCHANGED <<dp_run, dp_queue, dp_todo, dp_cell, dp_disk, dp_pkgs, dp_patches,
                 dp_start, dp_snap, dp_prev_ok, dp_prev_calls>>
  /\ UNCHANGED <<dp_retry, dp_blfile>>
  /\ UNCHANGED <<orchVars, collateVars, blVars, fetchVars, archVars, pageVars>>

\* Dpkg::source lines 406-426: debuild; it fails, or exits with 0 having
\* written the .dsc and the .tar.xz, or exits with 0 without the .dsc
DpSrcDebuild(out) ==
  /\ dp_pc = "src_debuild"
  /\ Invoke(<<"debuild">>)
  /\ dp_disk' = CASE out = "built" -> dp_disk \cup {DscFile, TarFile}
                  [] out = "nodsc" -> dp_disk \cup {TarFile}
                  [] OTHER -> dp_disk
  /\ IF out = "fail" THEN SourceErr
     ELSE dp_pc' = "src_verify" /\ UNCHANGED <<dp_ret, dp_sent, dp_ok>>
  /\ UNCHANGED <<dp_run, dp_queue, dp_todo, dp_cell, dp_pkgs, dp_patches,
                 dp_start, dp_snap, dp_prev_ok, dp_prev_calls>>
  /\ UNCHANGED <<dp_retry, dp_blfile>>
  /\ UNCHANGED <<orchVars, collateVars, blVars, fetchVars, archVars, pageVars>>

\* Dpkg::source lines 429-432: both files must exist; Ok((dsc, tar, version));
\* process_repo lines 164-172 then call dpkg.binary for the architecture
DpSrcVerify ==
  /\ dp_pc = "src_verify"
  /\ IF DscFile \in dp_disk /\ TarFile \in dp_disk
       THEN /\ dp_ret' = Ret("source", TRUE, <<DscFile, TarFile>>, dp_trace)
            /\ dp_pc' = "bin_read"
            /\ dp_snap' = dp_disk
            /\ dp_trace' = <<>>
            /\ UNCHANGED <<dp_sent, dp_ok, dp_calls>>
       ELSE /\ UNCHANGED <<dp_snap, dp_trace, dp_calls>>
            /\ SourceErr
  /\ UNCHANGED <<dp_run, dp_queue, dp_todo, dp_cell, dp_disk, dp_pkgs, dp_patches,
                 dp_start, dp_prev_ok, dp_prev_calls>>
  /\ UNCHANGED <<dp_retry, dp_blfile>>
  /\ UNCHANGED <<orchVars, collateVars, blVars, fetchVars, archVars, pageVars>>

\* Dpkg::binary lines 52-57: the .dsc is read and parsed; an Err of either is
\* returned to process_repo, which logs it (lines 175-180); a panic of
\* parse_dsc unwinds through process_repo and main and ends the process
DpBinRead(ok) ==
  /\ dp_pc = "bin_read"
  /\ LET parsed == parse_dsc(Dsc(dp_pkgs))
     IN IF ok /\ parsed.kind = "Ok"
          THEN dp_pc' = "bin_decide" /\ UNCHANGED <<dp_ret, dp_ok>>
        ELSE IF ok /\ parsed.kind = "panic"
          THEN dp_pc' = "bin_panicked" /\ UNCHANGED <<dp_ret, dp_ok>>
        ELSE /\ dp_ret' = Ret("binary", FALSE, <<>>, dp_trace)
             /\ dp_ok' = FALSE
             /\ dp_pc' = "next_cell"
  /\ UNCHANGED <<dp_run, dp_queue, dp_todo, dp_cell, dp_disk, dp_pkgs, dp_patches,
                 dp_start, dp_snap, dp_trace, dp_calls, dp_sent, dp_prev_ok, dp_prev_calls>>
  /\ UNCHANGED <<dp_retry, dp_blfile>>
  /\ UNCHANGED <<orchVars, collateVars, blVars, fetchVars, archVars, pageVars>>

\* Dpkg::binary lines 59-134: the expected paths; none: Ok(empty); all found or
\* the build log of an earlier build exists: no build; otherwise sbuild
DpBinDecide ==
  /\ dp_pc = "bin_decide"
  /\ LET debs == ExpectedDebs(parse_dsc(Dsc(dp_pkgs)).package_list)
     IN IF debs = <<>>
          THEN /\ dp_ret' = Ret("binary", TRUE, debs, dp_trace)
               /\ dp_pc' = "next_cell"
          ELSE /\ dp_pc' = IF found_binaries(debs, dp_disk) THEN "bin_verify"
                           ELSE IF PreviouslyFailed(dp_disk) THEN "bin_verify"
                           ELSE "bin_sbuild"
               /\ dp_ret' = dp_ret
  /\ UNCHANGED <<dp_run, dp_queue, dp_todo, dp_cell, dp_disk, dp_pkgs, dp_patches,
                 dp_start, dp_snap, dp_trace, dp_calls, dp_sent, dp_ok, dp_prev_ok, dp_prev_calls>>
  /\ UNCHANGED <<dp_retry, dp_blfile>>
  /\ UNCHANGED <<orchVars, collateVars, blVars, fetchVars, archVars, pageVars>>

\* Dpkg::binary lines 219-239: sbuild; it leaves its log and some of the
\* expected packages; an Err of sbuild is returned
DpBinSbuild(ok, made) ==
  /\ dp_pc = "bin_sbuild"
  /\ Invoke(<<"sbuild">>)
  /\ dp_disk' = dp_disk \cup SbuildLeaves(made)
  /\ IF ok THEN dp_pc' = "bin_verify" /\ UNCHANGED <<dp_ret, dp_ok>>
           ELSE /\ dp_ret' = Ret("binary", FALSE, <<>>, dp_trace')
                /\ dp_ok' = FALSE
                /\ dp_pc' = "next_cell"
  /\ UNCHANGED <<dp_run, dp_queue, dp_todo, dp_cell, dp_pkgs, dp_patches,
                 dp_start, dp_snap, dp_sent, dp_prev_ok, dp_prev_calls>>
  /\ UNCHANGED <<dp_retry, dp_blfile>>
  /\ UNCHANGED <<orchVars, collateVars, blVars, fetchVars, archVars, pageVars>>

\* Dpkg::binary lines 242-255: Ok(debs), or Ok(empty) when a path is missing
DpBinVerify ==
  /\ dp_pc = "bin_verify"
  /\ dp_ret' = Ret("binary", TRUE, ReturnedDebs(ExpectedDebs(parse_dsc(Dsc(dp_pkgs)).package_list), dp_disk),
                 dp_trace)
  /\ dp_pc' = "next_cell"
  /\ UNCHANGED <<dp_run, dp_queue, dp_todo, dp_cell, dp_disk, dp_pkgs, dp_patches,
                 dp_start, dp_snap, dp_trace, dp_calls, dp_sent, dp_ok, dp_prev_ok, dp_prev_calls>>
  /\ UNCHANGED <<dp_retry, dp_blfile>>
  /\ UNCHANGED <<orchVars, collateVars, blVars, fetchVars, archVars, pageVars>>

\* the process is ended, the writer having appended the entries sent
\* (main.rs lines 109-126), and started again over the same _build and the same
\* remote branches; startup (main.rs lines 28-43) loads the blacklist, which
\* blacklist::fetch truncates in retry mode (blacklist.rs lines 13-18), and
\* leaves the rest of _build as it is
DpNextRun(retry) ==
  /\ dp_pc = "run_over"
  /\ dp_run < DpRuns
  /\ dp_retry' = retry
  /\ dp_blfile' = IF retry THEN <<>> ELSE dp_blfile \o dp_sent
  /\ dp_run' = dp_run + 1
  /\ dp_pc' = "build_queue"
  /\ dp_start' = dp_disk
  /\ dp_calls' = <<>>
  /\ dp_sent' = <<>>
  /\ dp_ret' = NoRet
  /\ dp_prev_ok' = dp_ok
  /\ dp_prev_calls' = dp_calls
  /\ dp_ok' = TRUE
  /\ dp_cell' = NoCell
  /\ UNCHANGED <<dp_queue, dp_todo, dp_disk, dp_pkgs, dp_patches, dp_snap, dp_trace>>
  /\ UNCHANGED <<orchVars, collateVars, blVars, fetchVars, archVars, pageVars>>

NextDpkg ==
  \/ \E ok \in BOOLEAN, n \in 1..DpCells : DpBuildQueue(ok, n)
  \/ DpNextCell
  \/ \E ok \in BOOLEAN : DpSrcPrepare(ok)
  \/ DpSrcCheck
  \/ \E ok \in BOOLEAN : DpSrcStamp(ok)
  \/ \E out \in {"fail", "built", "nodsc"} : DpSrcDebuild(out)
  \/ DpSrcVerify
  \/ \E ok \in BOOLEAN : DpBinRead(ok)
  \/ DpBinDecide
  \/ \E ok \in BOOLEAN : \E made \in SUBSET SeqRange(ExpectedDebs(dp_pkgs)) :
       DpBinSbuild(ok, made)
  \/ DpBinVerify
  \/ \E retry \in BOOLEAN : DpNextRun(retry)

----------------------------------------------------------------------------
(* GitTar::new for the branches of one repository: SpecArchive *)

\* the commits the branches of the repository may point at
ArCommits == {<<"c", "1">>, <<"c", "2">>}

\* the repositories given to build_queue: one commit per branch, several
\* branches may point at the same commit
ArRepos == UNION {[1..n -> ArCommits] : n \in 1..MaxBranches}

ArBranches == 1..Len(ar_shas)

\* GitTar::new line 18: archive_path.exists()
ArchiveExists(files, sha) == sha \in files

IdleArchive ==
  /\ ar_pc = "idle"
  /\ ar_shas = <<>>
  /\ ar_fut = <<>>
  /\ ar_files = {}
  /\ ar_log = <<>>

\* build_queue lines 27-48: one GitTar::new future per branch, collected into
\* a FuturesUnordered; the archives of an earlier run may exist
InitArchive ==
  /\ ar_pc = "stream"
  /\ ar_shas \in ArRepos
  /\ ar_fut = [i \in 1..Len(ar_shas) |-> "new"]
  /\ ar_files \in SUBSET ArCommits
  /\ ar_log = <<>>

\* GitTar::new lines 14-31, the first poll of the future of branch i: try_join!
\* starts the two git log and tests archive_path.exists(); when the file is not
\* there archive_id spawns git archive in the same poll
ArPoll(i) ==
  /\ ar_pc = "stream"
  /\ i \in ArBranches /\ ar_fut[i] = "new"
  /\ IF ArchiveExists(ar_files, ar_shas[i])
       THEN /\ ar_fut' = [ar_fut EXCEPT ![i] = "logs"]
            /\ ar_log' = ar_log
       ELSE /\ ar_fut' = [ar_fut EXCEPT ![i] = "spawned"]
            /\ ar_log' = Append(ar_log, ar_shas[i])
  /\ UNCHANGED <<ar_pc, ar_shas, ar_files>>
  /\ UNCHANGED <<orchVars, collateVars, blVars, fetchVars, dpkgVars, pageVars>>

\* archive_id lines 42-48: the git archive spawned for branch i opens the file
\* named by -o, which creates it or truncates the one that is there
ArOpen(i) ==
  /\ ar_pc \in {"stream", "panicked"}
  /\ i \in ArBranches /\ ar_fut[i] = "spawned"
  /\ ar_fut' = [ar_fut EXCEPT ![i] = "writing"]
  /\ ar_files' = ar_files \cup {ar_shas[i]}
  /\ UNCHANGED <<ar_pc, ar_shas, ar_log>>
  /\ UNCHANGED <<orchVars, collateVars, blVars, fetchVars, dpkgVars, pageVars>>

\* GitTar::new lines 31-38 and build_queue lines 41-43: the subprocesses of the
\* future of branch i have exited; Ok gives the GitTar, an Err (of git archive
\* or of a git log) panics through unwrap
ArJoined(i, ok) ==
  /\ ar_pc = "stream"
  /\ i \in ArBranches /\ ar_fut[i] \in {"logs", "writing"}
  /\ ar_fut' = [ar_fut EXCEPT ![i] = "ready"]
  /\ ar_pc' = IF ok THEN ar_pc ELSE "panicked"
  /\ UNCHANGED <<ar_shas, ar_files, ar_log>>
  /\ UNCHANGED <<orchVars, collateVars, blVars, fetchVars, dpkgVars, pageVars>>

\* build_queue line 68: every future has yielded its GitTar
ArReturn ==
  /\ ar_pc = "stream"
  /\ \A i \in ArBranches : ar_fut[i] = "ready"
  /\ ar_pc' = "done"
  /\ UNCHANGED <<ar_shas, ar_fut, ar_files, ar_log>>
  /\ UNCHANGED <<orchVars, collateVars, blVars, fetchVars, dpkgVars, pageVars>>

NextArchive ==
  \/ \E i \in 1..MaxBranches : ArPoll(i)
  \/ \E i \in 1..MaxBranches : ArOpen(i)
  \/ \E i \in 1..MaxBranches, ok \in BOOLEAN : ArJoined(i, ok)
  \/ ArReturn

----------------------------------------------------------------------------
(* github::fetch_all, one call: SpecPages *)

\* fetch_all line 136
per_page == 100

\* the url argument: organization_repos line 71, repository_branches lines 79-82
Endpoints == {"/orgs/o/repos", "/repos/o/r/branches"}

DecDigits == <<"0", "1", "2", "3", "4", "5", "6", "7", "8", "9">>

\* numtoa_str(10, buf): the decimal digits of n
RECURSIVE numtoa_str(_)
numtoa_str(n) ==
  IF n < 10 THEN <<DecDigits[n + 1]>>
  ELSE numtoa_str(n \div 10) \o <<DecDigits[(n % 10) + 1]>>

\* the records of the answer to page p when it holds n of them
PageOf(p, n) == [k \in 1..n |-> <<p, k>>]

\* the lengths of the pages the forge may answer with
PageSizes == {0, 1, per_page - 1, per_page, per_page + 1}

\* fetch_all line 178, taken when the page is not the last one
LastPage_Empty(found, limit) == found = 0

\* fetch_all line 178
LastPage(found, limit) == found < limit

IdlePages ==
  /\ fa_pc = "idle"
  /\ fa_page = 0
  /\ fa_url = <<>>
  /\ fa_token = None
  /\ fa_data = <<>>
  /\ fa_requests = <<>>
  /\ fa_served = <<>>
  /\ fa_result = None

\* fetch_all line 143: the length of page_url before the loop, in pieces
truncate_to == 3

\* fetch_all lines 134-143: the locals before the loop
InitPages ==
  /\ fa_pc = "loop"
  /\ fa_page = 0
  /\ \E url \in Endpoints : fa_url = <<"https://api.github.com", url, "?page=">>
  /\ fa_token \in {None, Some("t")}
  /\ fa_data = <<>>
  /\ fa_requests = <<>>
  /\ fa_served = <<>>
  /\ fa_result = None

\* fetch_all lines 145-162: the next page number, the URL rebuilt from its
\* fixed part, and the GET request sent
FaSend ==
  /\ fa_pc = "loop"
  /\ fa_page' = fa_page + 1
  /\ fa_url' = SubSeq(fa_url, 1, truncate_to) \o numtoa_str(fa_page')
                 \o <<"&per_page=">> \o numtoa_str(per_page)
                 \o (IF fa_token = None THEN <<>>
                     ELSE <<"&access_token=", fa_token[1]>>)
  /\ fa_requests' = Append(fa_requests, fa_url')
  /\ fa_pc' = "await"
  /\ UNCHANGED <<fa_token, fa_data, fa_served, fa_result>>
  /\ UNCHANGED <<orchVars, collateVars, blVars, fetchVars, dpkgVars, archVars>>

\* fetch_all lines 162-181: the answer to the request. A failure of send, of
\* error_for_status or of json returns the error through `?` and data is
\* dropped; otherwise the page is appended and a short page ends the loop.
\* The forge holds finitely many records: page MaxPages is a short one.
FaResponse(err, n) ==
  /\ fa_pc = "await"
  /\ n >= per_page => fa_page < MaxPages
  /\ IF err # "none"
       THEN /\ fa_result' = Some([ok |-> FALSE, value |-> err])
            /\ fa_pc' = "done"
            /\ UNCHANGED <<fa_data, fa_served>>
       ELSE /\ fa_served' = Append(fa_served, PageOf(fa_page, n))
            /\ fa_data' = fa_data \o PageOf(fa_page, n)
            /\ IF LastPage(n, per_page)
                 THEN /\ fa_result' = Some([ok |-> TRUE, value |-> fa_data'])
                      /\ fa_pc' = "done"
                 ELSE /\ fa_result' = fa_result
                      /\ fa_pc' = "loop"
  /\ UNCHANGED <<fa_page, fa_url, fa_token, fa_requests>>
  /\ UNCHANGED <<orchVars, collateVars, blVars, fetchVars, dpkgVars, archVars>>

NextPages ==
  \/ FaSend
  \/ \E err \in {"none", "GetOrgRepos", "Deserialize"}, n \in PageSizes :
       FaResponse(err, n)

----------------------------------------------------------------------------
(* Specifications *)

IdleOrch ==
  /\ concurrent_builds = 0
  /\ main_pc = "idle"
  /\ main_result = "none"
  /\ fatal = "none"
  /\ exit_code = NotExited
  /\ blacklisted = {}
  /\ fetcher_pc = "idle"
  /\ org = 1
  /\ task = [r \in Repos |-> "none"]
  /\ queue = [r \in Repos |-> {}]
  /\ cur = [r \in Repos |-> NoCell]
  /\ archs_todo = [r \in Repos |-> {}]
  /\ deb_paths = [r \in Repos |-> {}]
  /\ tx_alive = FALSE
  /\ tx_clones = 0
  /\ chan = <<>>
  /\ writer_pc = "idle"
  /\ bl_file = <<>>
  /\ dsc = {}
  /\ source_calls = {}
  /\ published = {}

Init == InitOrch /\ IdleCollate /\ IdleBl /\ IdleFetch /\ IdleDpkg /\ IdleArchive /\ IdlePages

Next == NextOrch

Spec == Init /\ [][Next]_vars

FairSpec == Spec /\ WF_vars(Next)

InitSpecCollate == IdleOrch /\ InitCollate /\ IdleBl /\ IdleFetch /\ IdleDpkg /\ IdleArchive /\ IdlePages

SpecCollate == InitSpecCollate /\ [][NextCollate]_vars

InitSpecBlacklist == IdleOrch /\ IdleCollate /\ InitBl /\ IdleFetch /\ IdleDpkg /\ IdleArchive /\ IdlePages

SpecBlacklist == InitSpecBlacklist /\ [][NextBl]_vars

InitSpecFetch == IdleOrch /\ IdleCollate /\ IdleBl /\ InitFetch /\ IdleDpkg /\ IdleArchive /\ IdlePages

SpecFetch == InitSpecFetch /\ [][NextFetch]_vars

InitSpecListing == IdleOrch /\ IdleCollate /\ IdleBl /\ InitListing /\ IdleDpkg /\ IdleArchive /\ IdlePages

SpecListing == InitSpecListing /\ [][NextFetch]_vars

InitSpecDpkg == IdleOrch /\ IdleCollate /\ IdleBl /\ IdleFetch /\ InitDpkg /\ IdleArchive /\ IdlePages

SpecDpkg == InitSpecDpkg /\ [][NextDpkg]_vars

InitSpecArchive == IdleOrch /\ IdleCollate /\ IdleBl /\ IdleFetch /\ IdleDpkg /\ InitArchive /\ IdlePages

SpecArchive == InitSpecArchive /\ [][NextArchive]_vars

InitSpecPages ==
  IdleOrch /\ IdleCollate /\ IdleBl /\ IdleFetch /\ IdleDpkg /\ IdleArchive /\ InitPages

SpecPages == InitSpecPages /\ [][NextPages]_vars

----------------------------------------------------------------------------
(* Claims checked under Spec and FairSpec *)

\* repositories inside process_repo (Collator and builder stages)
Processing == {r \in Repos : task[r] \notin {"none", "fetching", "done", "fetch_err"}}
\* repositories in the Fetcher stage
Fetching == {r \in Repos : task[r] = "fetching"}
\* the pockets of the run
Pockets == {c.pocket : c \in AllCells}

\* C1: no cell whose (commit id, series) is in the blacklist loaded at startup
\* is passed to the Source Builder (Dpkg::source).
C1_BlacklistedCellNotBuilt ==
  \A c \in source_calls : <<c.id, c.series>> \notin blacklisted

\* C3: at no instant are two invocations of debuild in progress.
C3_DebuildSerialized ==
  Cardinality({r \in Repos : task[r] = "debuild"}) <= 1

C6_ShutdownLiveness ==
  (fetcher_pc = "done" /\ tx_clones = 0)
    ~> (writer_pc = "done" /\ main_pc \in {"returned", "exited"})

\* C7: after all organizations have completed, the Publisher runs for every
\* pocket.
C7_PublisherRuns ==
  (fetcher_pc = "done") ~> (published = Pockets)

\* C8: the process exits with a non-zero code when, and only when, a fatal
\* configuration error occurred.
C8_ExitCode ==
  exit_code # NotExited => ((exit_code # 0) <=> (fatal = "config"))

\* the cells of repository r (its commits carry its number)
CellsOfRepo(r) == {c \in AllCells : \E k \in 1..Len(RepoBranches(r)) : c.id = Sha(r, k)}
\* the organization of r was skipped: its repository list could not be fetched
OrgSkipped(r) == task[r] = "none" /\ (org > OrgOf(r) \/ fetcher_pc = "done")
\* nothing of r reached the Collator or the builders
NoBuild(r) == queue[r] = {} /\ source_calls \cap CellsOfRepo(r) = {}

\* C13: a fetch-stage error of a repository, or a forge error of an
\* organization, ends only that repository's (organization's) work: nothing
\* is built for it, the step leaves every other repository as it was, and the
\* run still goes through every organization (unless the process ends).
C13_FetchErrorContained ==
  /\ [](\A r \in Repos : (task[r] = "fetch_err" \/ OrgSkipped(r)) => NoBuild(r))
  /\ [][\A r \in Repos :
         (task[r] = "fetching" /\ task'[r] = "fetch_err")
           => \A q \in Repos \ {r} : task'[q] = task[q]]_vars
  /\ [][(fetcher_pc = "organization" /\ org' # org /\ task' = task)
          => (org' = org + 1 /\ fetcher_pc' = "organization")]_vars
  /\ (\E r \in Repos : task[r] = "fetch_err" \/ OrgSkipped(r))
       ~> (fetcher_pc = "done" \/ exit_code # NotExited)

\* C13 witness: the fetch of a repository failed, another repository of the
\* same organization was built, and a later organization has been reached.
C13_Witness ==
  \E r \in Repos :
    /\ task[r] = "fetch_err"
    /\ \E q \in OrgRepos(OrgOf(r)) \ {r} : source_calls \cap CellsOfRepo(q) # {}
    /\ org > OrgOf(r)
    /\ \E q \in OrgRepos(org) : task[q] \notin {"none", "fetching"}

----------------------------------------------------------------------------
(* Claims checked under SpecCollate *)

CqBranches == {cq_branches[i] : i \in 1..Len(cq_branches)}
\* names of pockets and series: texts without an underscore
PlainNames == {master, release, SeriesA, SeriesB}
\* the branch is named p_s
NamedPS(b, p, s) == b.name = p \o <<US>> \o s
\* the branch resolves to the slot (s, p) by naming the series
ResolvesTo(b, p, s) == parse_branch(b.name) = [pocket |-> p, codename |-> Some(s)]
\* the entry of slot (s, p) is the commit of branch b
Holds(s, p, b) == p \in DOMAIN cq_queue[s] /\ cq_queue[s][p].id = b.sha

C10_LastByNameWins ==
  cq_pc = "done" =>
    \A s \in cq_series : \A p \in DOMAIN cq_queue[s] :
      LET cands == {b \in CqBranches : ResolvesTo(b, p, s) \/ b.name = p}
      IN \A b \in cands :
           (\A c \in cands \ {b} : StrLess(c.name, b.name)) => cq_queue[s][p].id = b.sha

----------------------------------------------------------------------------
(* Claims checked under SpecBlacklist *)

\* C2: an entry appended for a failed cell in one run is loaded by the next
\* run (without retry mode) and matches that cell in the consult of
\* process_repo.
C2_RoundTrip ==
  \A x \in bf_consulted :
    (bf_run >= 2 /\ ~bf_retry /\ x.cell \in bf_prev_failed) => x.hit

----------------------------------------------------------------------------
(* Claims checked under SpecFetch *)

\* the commands that write a working tree: all but git branch
Mutating(x) == x.cmd \in {"clone", "fetch", "checkout", "submodule sync",
                          "submodule update", "clean"}

\* C4: in each repository working tree at most one mutating git subprocess
\* launched by the Fetcher is running at any instant; checkouts of different
\* branches of one repository never overlap.
C4_OneGitPerTree ==
  /\ \A r \in FetchRepos :
       Cardinality({x \in ft_running : Mutating(x) /\ Tree(r) \in {x.tree, x.cwd}}) <= 1
  /\ \A x, y \in ft_running :
       (x.cmd = "checkout" /\ y.cmd = "checkout" /\ x.repo = y.repo) => x = y

\* C4 witness: the checkout of a second branch of a repository is running,
\* after the checkout of its first branch, while a git command of another
\* repository is running too.
C4_Witness ==
  \E r \in FetchRepos : \E x \in ft_running :
    /\ x.repo = r /\ x.cmd = "checkout" /\ x.tree = Tree(r)
    /\ ft_k[r] > Len(checkout_id(r, x.arg)) + 1
    /\ \E y \in ft_running : y.repo # r /\ Mutating(y)

\* the remote branches the forge listed, in its order, without the names
\* holding "/"
RemoteKept(r) == SelectSeq(RemoteListing(r), LAMBDA b : ~Contains(b.name, "/"))
\* those of them whose local head is absent or differs from the remote sha
RemoteRequired(r) == SelectSeq(RemoteKept(r), LAMBDA b : RequiredCheckout(ft_heads[r], b))
\* the commands named cmd that the future of r spawned, in order
Spawned(r, cmd) == SelectSeq(ft_log[r], LAMBDA x : x.cmd = cmd)
\* the position of the first command named cmd in the log of r, 0 when none
FirstOf(r, cmd) ==
  IF \E i \in 1..Len(ft_log[r]) : ft_log[r][i].cmd = cmd
    THEN CHOOSE i \in 1..Len(ft_log[r]) :
           ft_log[r][i].cmd = cmd /\ \A j \in 1..(i-1) : ft_log[r][j].cmd # cmd
    ELSE 0

\* C11: a branch requires checkout iff its local head is absent or differs;
\* when some branch requires checkout, exactly one fetch is performed, it
\* completes before the first checkout, and one checkout per required branch
\* follows, serially, in remote order; when none does, neither fetch nor
\* checkout runs.
C11_FetchProtocol ==
  /\ \A x, y \in ft_running :
       x.repo = y.repo => ~(x.cmd = "fetch" /\ y.cmd = "checkout")
  /\ \A r \in FetchRepos : ft_pc[r] = "ok" =>
       /\ \A i \in 1..Len(ft_emitted[r][1]) :
            LET b == ft_emitted[r][1][i]
            IN b.required_checkout <=>
                 (b.name \notin DOMAIN ft_heads[r] \/ ft_heads[r][b.name] # b.sha)
       /\ Len(Spawned(r, "fetch")) = IF RemoteRequired(r) = <<>> THEN 0 ELSE 1
       /\ RemoteRequired(r) # <<>> => FirstOf(r, "fetch") < FirstOf(r, "checkout")
       /\ [i \in 1..Len(Spawned(r, "checkout")) |-> Spawned(r, "checkout")[i].arg]
            = [i \in 1..Len(RemoteRequired(r)) |-> RemoteRequired(r)[i].sha]

----------------------------------------------------------------------------
(* Claims checked under SpecListing *)

\* the branches of the listing of r whose name holds "/"
SlashListed(r) ==
  {ft_listing[r][i] : i \in {j \in 1..Len(ft_listing[r]) : Contains(ft_listing[r][j].name, "/")}}
\* the other branches of the listing
PlainListed(r) ==
  {ft_listing[r][i] : i \in {j \in 1..Len(ft_listing[r]) : ~Contains(ft_listing[r][j].name, "/")}}

----------------------------------------------------------------------------
(* Claims checked under SpecDpkg *)

Expected == ExpectedDebs(dp_pkgs)
SourceFiles == {DscFile, TarFile}
AllExpectedIn(disk) == \A i \in 1..Len(Expected) : Expected[i] \in disk
Invoked(tool, calls) == \E i \in 1..Len(calls) : calls[i] = tool
Count(tool, calls) == Cardinality({i \in 1..Len(calls) : calls[i] = tool})

\* C14: when the .dsc and the .tar.xz exist at the idempotence check, the
\* changelog is not stamped, no patch is applied, debuild is not invoked, and
\* source returns the two paths with Ok.
C14_SourceIdempotent ==
  /\ [](dp_pc \in {"src_stamp", "src_debuild"} => ~(SourceFiles \subseteq dp_snap))
  /\ [][(dp_pc = "src_check" /\ SourceFiles \subseteq dp_disk)
          => (dp_pc' = "src_verify" /\ dp_calls' = dp_calls /\ dp_disk' = dp_disk)]_vars
  /\ [][(dp_pc = "src_verify" /\ SourceFiles \subseteq dp_snap)
          => dp_ret' = [fn |-> "source", ok |-> TRUE, value |-> <<DscFile, TarFile>>,
                        trace |-> <<"tar", "dpkg-parsechangelog">>, snap |-> dp_snap]]_vars

\* C14 witness: source returned Ok for a cell whose two files existed.
C14_Witness ==
  /\ dp_ret.fn = "source" /\ dp_ret.ok
  /\ SourceFiles \subseteq dp_ret.snap
  /\ dp_ret.value = <<DscFile, TarFile>>

\* C15: when every expected .deb exists at the call of Dpkg::binary, sbuild is
\* not spawned and the full ordered list of expected paths is returned.
C15_BinaryPresenceCache ==
  /\ [](dp_pc = "bin_sbuild" => ~AllExpectedIn(dp_snap))
  /\ [][(dp_pc \in {"bin_decide", "bin_verify"} /\ AllExpectedIn(dp_snap))
          => \/ dp_pc' = "bin_verify" /\ dp_calls' = dp_calls /\ dp_disk' = dp_disk
             \/ dp_ret' = [fn |-> "binary", ok |-> TRUE, value |-> Expected,
                           trace |-> <<>>, snap |-> dp_snap]]_vars

\* C15 witness: binary returned two expected paths without any tool.
C15_Witness ==
  /\ dp_ret.fn = "binary" /\ dp_ret.ok
  /\ Len(dp_ret.value) = 2 /\ dp_ret.value = Expected
  /\ AllExpectedIn(dp_ret.snap)
  /\ dp_ret.trace = <<>>

\* C16: when an expected .deb is missing and the build log exists, sbuild is not
\* invoked and Dpkg::binary returns without error.
C16_PreviousFailureCache ==
  /\ [](dp_pc = "bin_sbuild" => BuildLog(build_arch) \notin dp_snap)
  /\ [][(dp_pc \in {"bin_decide", "bin_verify"}
           /\ ~AllExpectedIn(dp_snap) /\ BuildLog(build_arch) \in dp_snap)
          => \/ dp_pc' = "bin_verify" /\ dp_calls' = dp_calls /\ dp_disk' = dp_disk
             \/ dp_ret'.fn = "binary" /\ dp_ret'.ok /\ dp_ret'.trace = <<>>]_vars

\* C16 witness: binary returned Ok without any tool although a .deb was missing,
\* the build log being there.
C16_Witness ==
  /\ dp_ret.fn = "binary" /\ dp_ret.ok
  /\ dp_ret.trace = <<>>
  /\ ~AllExpectedIn(dp_ret.snap)
  /\ BuildLog(build_arch) \in dp_ret.snap

\* C17: the list Dpkg::binary returns with Ok is empty or holds only paths that
\* exist; it is empty when an expected .deb is missing.
C17_BinaryPostcondition ==
  (dp_ret.fn = "binary" /\ dp_ret.ok) =>
    /\ \A i \in 1..Len(dp_ret.value) : dp_ret.value[i] \in dp_disk
    /\ dp_ret.value \in {<<>>, Expected}
    /\ (dp_pc = "next_cell" /\ ~AllExpectedIn(dp_disk)) => dp_ret.value = <<>>

\* C17 witness: sbuild exited with 0 and left one of two expected packages;
\* binary returned the empty list.
C17_Witness ==
  /\ dp_ret.fn = "binary" /\ dp_ret.ok
  /\ dp_ret.trace = <<"sbuild">>
  /\ Len(Expected) = 2 /\ Expected[1] \in dp_disk /\ Expected[2] \notin dp_disk
  /\ dp_ret.value = <<>>

\* C18: after a run in which every source and binary build returned Ok, the
\* next run invokes neither debuild nor sbuild.
C18_IdempotentRerun ==
  (dp_run >= 2 /\ dp_prev_ok) =>
    ~Invoked("debuild", dp_calls) /\ ~Invoked("sbuild", dp_calls)

\* C18 witness: the first run built the source and the binaries, the second
\* run went through every cell and returned the packages.
C18_Witness ==
  /\ dp_run = 2 /\ dp_prev_ok /\ dp_pc = "run_over"
  /\ Invoked("debuild", dp_prev_calls) /\ Invoked("sbuild", dp_prev_calls)
  /\ dp_ret.fn = "binary" /\ dp_ret.ok /\ dp_ret.value # <<>>

\* C19: a run that starts with every artifact present (archive, .dsc, .tar.xz,
\* every expected .deb) invokes no subprocess in process_repo: no archive
\* extraction, no changelog parsing, no build tool.
C19_RerunNoSubprocess ==
  (dp_run >= 2 /\ ({GitArchive} \cup SourceFiles) \subseteq dp_start /\ AllExpectedIn(dp_start))
    => dp_calls = <<>>

\* C20: in one run debuild is invoked at most once per (commit, series), sbuild
\* at most once per (commit, series, architecture), and the pair (commit,
\* series) is sent to the blacklist at most once.
C20_AtMostOnce ==
  /\ Count("debuild", dp_calls) <= 1
  /\ Count("sbuild", dp_calls) <= 1
  /\ Len(dp_sent) <= 1

----------------------------------------------------------------------------
(* Claims on the error paths of process_repo, checked under Spec and FairSpec *)

\* the future of r leaves Dpkg::source with an Err
SourceErrStep(r) == task[r] \in {"source", "debuild"} /\ task'[r] = "cells"

\* the future of r comes back from a call of Dpkg::binary
BinaryStep(r) == task[r] = "binary" /\ archs_todo'[r] # archs_todo[r]

\* C21 (sends): an Err of Dpkg::source for a cell sends exactly the entry
\* (sha, series) of that cell, nothing else sends an entry, and a return of
\* Dpkg::binary, Ok or Err, sends nothing.
C21_SendOnSourceErrOnly ==
  /\ [][\A r \in Repos : SourceErrStep(r)
          => chan' = Append(chan, <<cur[r].id, cur[r].series>>)]_vars
  /\ [][Len(chan') > Len(chan) => \E r \in Repos : SourceErrStep(r)]_vars
  /\ [][(\E r \in Repos : BinaryStep(r)) => chan' = chan]_vars

\* C21: every Err of Dpkg::source sends exactly one (sha, series) entry, which
\* is then appended to the blacklist file; an Err of Dpkg::binary sends none.
C21_SourceErrorBlacklisted ==
  /\ C21_SendOnSourceErrOnly
  /\ (chan # <<>>) ~> (chan = <<>>)

\* C22: an Err of Dpkg::binary for one architecture leaves the remaining
\* architectures of the cell to be built, and an Err of Dpkg::source or
\* Dpkg::binary in one cell leaves the remaining cells of the repository to be
\* processed: process_repo returns only when every cell was passed to
\* Dpkg::source.
C22_SiblingIndependence ==
  /\ [][\A r \in Repos : BinaryStep(r) =>
          /\ archs_todo'[r] # {} => task'[r] = "binary"
          /\ archs_todo'[r] = {} => task'[r] = "cells"
          /\ queue'[r] = queue[r]]_vars
  /\ [][\A r \in Repos : SourceErrStep(r) => queue'[r] = queue[r]]_vars
  /\ [][\A r \in Repos : task'[r] = "done" /\ task[r] # "done"
          => task[r] = "cells" /\ queue[r] = {}]_vars
  /\ [](\A r \in Repos : task[r] = "done" => CellsOfRepo(r) \subseteq source_calls)

\* C22 witness: the source build of one cell of a repository failed, its other
\* cell is in the loop over the architectures, Dpkg::binary returned Err for
\* the first architecture and the second is still to be built.
C22_Witness ==
  \E r \in Repos : \E c \in CellsOfRepo(r) \ {cur[r]} :
    /\ \E i \in 1..Len(chan) : chan[i] = <<c.id, c.series>>
    /\ task[r] = "binary"
    /\ Cardinality(archs_todo[r]) = 1
    /\ deb_paths[r] = {}

----------------------------------------------------------------------------
(* Claims on the blacklist file, checked under SpecBlacklist *)

HexChars == {"0", "1", "2", "3", "4", "5", "6", "7", "8", "9",
             "a", "b", "c", "d", "e", "f"}

\* the position of the first space of a line, 0 when it has none
FirstSpace(line) ==
  IF \A i \in 1..Len(line) : line[i] # SP THEN 0
  ELSE CHOOSE k \in 1..Len(line) : line[k] = SP /\ \A j \in 1..(k-1) : line[j] # SP

\* a text without its trailing whitespace
RECURSIVE TrimEnd(_)
TrimEnd(t) ==
  IF t # <<>> /\ t[Len(t)] = SP THEN TrimEnd(SubSeq(t, 1, Len(t) - 1)) ELSE t

\* the entry a line "<sha> <series>" stands for, trailing whitespace aside
WrittenEntry(line) ==
  <<SubSeq(line, 1, FirstSpace(line) - 1),
    TrimEnd(SubSeq(line, FirstSpace(line) + 1, Len(line)))>>

\* the line matches ^[0-9a-f]+ \S+$
LineRegular(line) ==
  LET pos == FirstSpace(line)
  IN /\ pos > 1 /\ pos < Len(line)
     /\ \A i \in 1..(pos - 1) : line[i] \in HexChars
     /\ \A i \in (pos + 1)..Len(line) : line[i] # SP

\* the entries of the file, line by line, as blacklist::fetch would split them
EntrySet(bytes) == {ParseLine(Lines(bytes)[i]) : i \in 1..Len(Lines(bytes))}

IsPrefix(a, b) == Len(a) <= Len(b) /\ SubSeq(b, 1, Len(a)) = a

\* C23: with PACKAGING_RETRY=1 startup truncates the blacklist file and the
\* loaded blacklist is empty, so that no cell of the run is found blacklisted.
C23_RetryTruncates ==
  /\ [][(bf_pc = "startup" /\ bf_retry)
          => (bf_exists' /\ bf_bytes' = <<>> /\ bf_loaded' = <<>>)]_vars
  /\ []((bf_pc = "running" /\ bf_retry)
          => (bf_loaded = <<>> /\ \A x \in bf_consulted : ~x.hit))

\* C23 witness: the second run is started in retry mode over a file that holds
\* the line of a cell that failed in the first run; the file is empty after
\* startup and the consult of that cell misses.
C23_Witness ==
  /\ bf_run = 2 /\ bf_retry /\ bf_pc = "running"
  /\ bf_bytes = <<>> /\ bf_loaded = <<>>
  /\ \E c \in bf_prev_failed : [cell |-> c, hit |-> FALSE] \in bf_consulted

\* C24: without retry mode, on an existing file whose lines all hold a space,
\* one entry per line is returned, the series of each being the series written
\* on the line (trailing whitespace aside), and the file is left as it was; if a
\* line is malformed the file is truncated and no entry is returned.
C24_BlacklistLoad ==
  [][(bf_pc = "startup" /\ ~bf_retry /\ bf_exists) =>
       LET ls == Lines(bf_bytes)
       IN IF \A i \in 1..Len(ls) : FirstSpace(ls[i]) > 0
            THEN /\ bf_bytes' = bf_bytes
                 /\ bf_loaded' = [i \in 1..Len(ls) |-> WrittenEntry(ls[i])]
            ELSE /\ bf_bytes' = <<>>
                 /\ bf_loaded' = <<>>]_vars

\* C25: once startup is over every line of the blacklist file matches
\* ^[0-9a-f]+ \S+$ (or the file is empty), whatever the file held before and
\* whatever the writer appended.
C25_LineRegular ==
  bf_pc = "running" =>
    \A i \in 1..Len(Lines(bf_bytes)) : LineRegular(Lines(bf_bytes)[i])

\* C26: once startup is over the entries of the blacklist file only grow: no
\* step of the run removes or rewrites an existing line, and the file is
\* truncated only at startup.
C26_MonotoneDuringRun ==
  /\ [][(bf_pc = "running" /\ bf_pc' = "running")
          => EntrySet(bf_bytes) \subseteq EntrySet(bf_bytes')]_vars
  /\ [][~IsPrefix(bf_bytes, bf_bytes') => bf_pc = "startup"]_vars

----------------------------------------------------------------------------
(* Claims on the Package-List, checked under SpecDpkg *)

\* the line of the Package-List that declares the binary of a .deb path
PkgIndex(path) == CHOOSE i \in 1..Len(dp_pkgs) : dp_pkgs[i].binary = path[1]

C29_EmptyPackageList ==
  /\ [](ExpectedDebs(dp_pkgs) = <<>> => dp_pc \notin {"bin_panicked", "bin_sbuild"})
  /\ [][(dp_pc = "bin_decide" /\ ExpectedDebs(dp_pkgs) = <<>>)
          => dp_ret' = [fn |-> "binary", ok |-> TRUE, value |-> <<>>,
                        trace |-> <<>>, snap |-> dp_snap]]_vars

----------------------------------------------------------------------------
(* Claims checked under SpecArchive *)

\* the git archive processes that are running for commit c
Archiving(c) == {i \in ArBranches : ar_shas[i] = c /\ ar_fut[i] \in {"spawned", "writing"}}

\* C30: for every commit c, git archive is spawned at most once for c.tar,
\* two git archive never write c.tar at the same time, also when several
\* branches point at c, and a c.tar that exists is never written again.
C30_ArchiveOnce ==
  /\ [](\A c \in ArCommits :
          /\ Cardinality({k \in 1..Len(ar_log) : ar_log[k] = c}) <= 1
          /\ Cardinality(Archiving(c)) <= 1)
  /\ [][\A i \in ArBranches :
          (ar_fut[i] = "spawned" /\ ar_fut'[i] = "writing") => ar_shas[i] \notin ar_files]_vars

----------------------------------------------------------------------------
(* Claims on the forge pagination, checked under SpecPages *)

RECURSIVE Concat(_)
Concat(pages) == IF pages = <<>> THEN <<>> ELSE Head(pages) \o Concat(Tail(pages))

\* the URL of page k of the listing the call is about
PageUrl(k) ==
  SubSeq(fa_url, 1, truncate_to) \o numtoa_str(k) \o <<"&per_page=", "1", "0", "0">>
    \o (IF fa_token = None THEN <<>> ELSE <<"&access_token=", fa_token[1]>>)

\* C31: fetch_all requests pages 1, 2, 3, ... with per_page = 100; it requests
\* nothing after the first page of fewer than 100 records; it returns Ok with
\* the concatenation of the pages in page order exactly when that short page
\* has arrived; an error on a page returns Err, which carries none of the
\* records gathered before.
C31_Pagination ==
  /\ \A k \in 1..Len(fa_requests) : fa_requests[k] = PageUrl(k)
  /\ Len(fa_requests) - Len(fa_served) \in {0, 1}
  /\ \A k \in 1..(Len(fa_served) - 1) : Len(fa_served[k]) >= 100
  /\ fa_pc # "done" =>
       /\ fa_result = None
       /\ fa_served # <<>> => Len(fa_served[Len(fa_served)]) >= 100
  /\ fa_pc = "done" =>
       IF Len(fa_requests) = Len(fa_served)
         THEN /\ Len(fa_served[Len(fa_served)]) < 100
              /\ fa_result = Some([ok |-> TRUE, value |-> Concat(fa_served)])
         ELSE /\ fa_result # None
              /\ ~fa_result[1].ok
              /\ fa_result[1].value \in {"GetOrgRepos", "Deserialize"}

\* C31 witness: two pages were requested, the first full and the second one
\* record short, and fetch_all returned the 199 records
C31_Witness ==
  /\ fa_pc = "done"
  /\ Len(fa_requests) = 2
  /\ Len(fa_served) = 2
  /\ Len(fa_served[1]) = 100
  /\ Len(fa_served[2]) = 99
  /\ fa_result # None
  /\ fa_result[1].ok
  /\ Len(fa_result[1].value) = 199

----------------------------------------------------------------------------
(* Claims on the Collator, checked under SpecCollate *)

\* the position of the first underscore of a name, 0 when it has none
FirstUnderscore(name) ==
  IF \A i \in 1..Len(name) : name[i] # US THEN 0
  ELSE CHOOSE i \in 1..Len(name) : name[i] = US /\ \A j \in 1..(i - 1) : name[j] # US

\* C32: parse_branch splits a branch name at its first underscore only: the
\* pocket is the text before it and the series is all of the text after it; a
\* name without an underscore is the pocket, with no series.
C32_SplitAtFirstUnderscore ==
  \A i \in 1..Len(cq_branches) :
    LET name == cq_branches[i].name
        u == FirstUnderscore(name)
    IN parse_branch(name) =
         IF u = 0 THEN [pocket |-> name, codename |-> None]
         ELSE [pocket |-> SubSeq(name, 1, u - 1),
               codename |-> Some(SubSeq(name, u + 1, Len(name)))]

\* C33: a branch that names no series is placed only into the series whose
\* configuration has wildcard = true; the entries of a series with
\* wildcard = false all come from branches that name that series.
C33_WildcardOnly ==
  cq_pc = "done" =>
    \A s \in cq_series : \A p \in DOMAIN cq_queue[s] :
      /\ \A b \in CqBranches :
           (FirstUnderscore(b.name) = 0 /\ cq_queue[s][p].id = b.sha) => cq_wildcard[s]
      /\ ~cq_wildcard[s] =>
           \E b \in CqBranches :
             /\ parse_branch(b.name).codename = Some(s)
             /\ cq_queue[s][p].id = b.sha

\* C38: the keys of the build plan are exactly the configured series, while
\* build_queue collates and when it returns; a branch naming a series that is
\* not configured adds no entry to any series; a series that no branch names
\* and that no series-less branch reaches keeps an empty pocket map.
C38_KeysAreSeries ==
  cq_pc \in {"stream", "done"} =>
    /\ DOMAIN cq_queue = cq_series
    /\ \A b \in CqBranches :
         LET u == FirstUnderscore(b.name)
             rest == Split(SubSeq(b.name, u + 1, Len(b.name)), US)
         IN (u > 0 /\ rest[1] \notin cq_series) =>
              \A s \in DOMAIN cq_queue : \A p \in DOMAIN cq_queue[s] :
                cq_queue[s][p].id # b.sha
    /\ \A s \in DOMAIN cq_queue :
         (\A b \in CqBranches :
            LET u == FirstUnderscore(b.name)
            IN u > 0 /\ Split(SubSeq(b.name, u + 1, Len(b.name)), US)[1] # s)
           => DOMAIN cq_queue[s] = {}

\* C38 witness: series {A} alone is configured and the repository has the
\* branches m_A and m_B; build_queue returned a plan whose only key is A, with
\* the commit of m_A and nothing of m_B.
C38_Witness ==
  /\ cq_pc = "done"
  /\ cq_series = {SeriesA}
  /\ cq_branches = <<CollateBranch(2), CollateBranch(4)>>
  /\ DOMAIN cq_queue = {SeriesA}
  /\ DOMAIN cq_queue[SeriesA] = {master}
  /\ cq_queue[SeriesA][master].id = CollateSha(2)

----------------------------------------------------------------------------
(* Claims on the expected packages, checked under SpecDpkg *)

\* the one architecture an entry with the architectures archs resolves to
EffectiveArch(archs) ==
  IF {"any", "linux-any", build_arch} \cap SeqRange(archs) # {} THEN build_arch
  ELSE IF build_all /\ "all" \in SeqRange(archs) THEN "all"
  ELSE "skip"

\* C34: every line of the Package-List that is not skipped resolves to one
\* effective architecture (the build architecture when its set has any,
\* linux-any or the build architecture, else all when build_all is set and
\* the set has all, else none), so the paths Dpkg::binary returns hold at
\* most one path per line, that of its effective architecture, and no path
\* twice.
C34_OnePathPerEntry ==
  (dp_ret.fn = "binary" /\ dp_ret.ok) =>
    /\ \A i, j \in 1..Len(dp_ret.value) : i # j => dp_ret.value[i] # dp_ret.value[j]
    /\ \A k \in 1..Len(dp_pkgs) :
         Cardinality({i \in 1..Len(dp_ret.value) : PkgIndex(dp_ret.value[i]) = k}) <= 1
    /\ \A i \in 1..Len(dp_ret.value) :
         LET pkg == dp_pkgs[PkgIndex(dp_ret.value[i])]
         IN /\ pkg.kind # "udeb"
            /\ dp_ret.value[i] = DebFile(pkg.binary, EffectiveArch(pkg.archs))

\* C39: while the build log of the build architecture exists and an expected
\* .deb is missing, no step of any run invokes sbuild, and the start of a
\* later run, in retry mode or not, leaves the files of _build as they are;
\* retry mode empties the blacklist only.
C39_FailureCacheSurvivesRetry ==
  /\ [][(BuildLog(build_arch) \in dp_disk /\ ~AllExpectedIn(dp_disk))
          => /\ Count("sbuild", dp_calls') <= Count("sbuild", dp_calls)
             /\ BuildLog(build_arch) \in dp_disk']_vars
  /\ [][dp_run' # dp_run
          => /\ dp_disk' = dp_disk
             /\ dp_retry' => dp_blfile' = <<>>]_vars

\* C39 witness: the second run was started in retry mode after a first run in
\* which sbuild left its log and not every package; Dpkg::binary of the second
\* run returned without invoking a tool.
C39_Witness ==
  /\ dp_run = 2 /\ dp_retry
  /\ Invoked("sbuild", dp_prev_calls)
  /\ dp_ret.fn = "binary" /\ dp_ret.ok
  /\ dp_ret.trace = <<>>
  /\ BuildLog(build_arch) \in dp_ret.snap
  /\ ~AllExpectedIn(dp_ret.snap)

----------------------------------------------------------------------------
(* Claims on git::checkout_id, checked under SpecFetch *)

\* the steps of checkout_id, in the order the claim gives them
CheckoutSteps == <<"checkout", "submodule sync", "submodule update", "clean">>

StepNo(cmd) == CHOOSE n \in 1..Len(CheckoutSteps) : CheckoutSteps[n] = cmd

\* C35: checkout_id runs checkout --force --detach <id>, submodule sync,
\* submodule update --init and clean -xfd in this order, each in the working
\* tree of the repository; a step that fails ends the call, no later step is
\* run and the error is returned.
C35_CheckoutSteps ==
  /\ [](\A r \in FetchRepos : \A k \in 1..Len(ft_log[r]) :
          LET c == ft_log[r][k]
          IN c.cmd \in SeqRange(CheckoutSteps) =>
               /\ c.cwd = Tree(r)
               /\ StepNo(c.cmd) > 1 =>
                    /\ k > 1
                    /\ ft_log[r][k - 1].cmd = CheckoutSteps[StepNo(c.cmd) - 1]
                    /\ ft_log[r][k - 1].arg = c.arg
               /\ (StepNo(c.cmd) < 4 /\ k < Len(ft_log[r])) =>
                    ft_log[r][k + 1].cmd = CheckoutSteps[StepNo(c.cmd) + 1])
  /\ [](\A r \in FetchRepos : ft_pc[r] = "err" => ft_emitted[r] = None)
  /\ [][\A r \in FetchRepos :
          ft_pc[r] = "err" => (ft_pc'[r] = "err" /\ ft_log'[r] = ft_log[r])]_vars

----------------------------------------------------------------------------
(* Claims on the stages of a repository, checked under Spec and FairSpec *)

\* C36: a failure of GitTar::new for a branch of a repository stays within
\* that repository: whenever a repository is in build_queue, whatever becomes
\* of its archives, the run goes on until every organization is processed.
C36_GitTarErrorContained ==
  (\E r \in Repos : task[r] = "collate") ~> (fetcher_pc = "done")

\* the stages of process_repo for a repository
InProcessRepo == {"collate", "cells", "source", "debuild", "binary"}

\* C37: the stages of a repository follow one another: GitTar creation
\* (build_queue) starts only when the Fetcher has yielded the repository, its
\* git operations done, and the repository is never fetched again; the Source
\* Builder is called only from the loop over the cells, after build_queue
\* returned and with no other cell of the repository in progress; the Binary
\* Builder is entered only from the Source Builder of the same cell, with the
\* source of that cell built.
C37_StageOrder ==
  [][\A r \in Repos :
       /\ (task'[r] = "collate" /\ task[r] # "collate") => task[r] = "fetching"
       /\ task[r] \in InProcessRepo \cup {"done"} => task'[r] \in InProcessRepo \cup {"done"}
       /\ task[r] \in InProcessRepo \ {"collate"} => task'[r] # "collate"
       /\ (task'[r] = "source" /\ task[r] # "source") =>
            /\ task[r] = "cells"
            /\ cur'[r] \in queue[r]
       /\ (task'[r] = "debuild" /\ task[r] # "debuild") =>
            (task[r] = "source" /\ cur'[r] = cur[r])
       /\ (task'[r] = "binary" /\ task[r] # "binary") =>
            /\ task[r] \in {"source", "debuild"}
            /\ cur'[r] = cur[r]
            /\ <<cur[r].id, cur[r].series>> \in dsc'
       /\ (task[r] = "binary" /\ deb_paths'[r] # deb_paths[r]) =>
            <<cur[r].id, cur[r].series>> \in dsc]_vars

\* C37 witness: the Binary Builder of a second cell of a repository is about
\* to run, the source of that cell being built, after a first cell of the
\* repository went through the Source Builder.
C37_Witness ==
  \E r \in Repos :
    /\ task[r] = "binary"
    /\ archs_todo[r] # {}
    /\ <<cur[r].id, cur[r].series>> \in dsc
    /\ Cardinality(source_calls \cap CellsOfRepo(r)) >= 2

====
